---- MODULE Spec2Model ----
(***************************************************************************)
(* Exam server (src/server.py): a FastAPI service over four MongoDB        *)
(* collections (students, exams, questions, exam_attempts).  Every request *)
(* handler is an action over the collections; a handler that awaits two    *)
(* database calls whose interleaving matters is split at the await.        *)
(***************************************************************************)
EXTENDS Integers, Sequences, FiniteSets, TLC

VARIABLES
    students,      \* db.students: student id -> document
    exams,         \* db.exams: exam id -> document
    questions,     \* db.questions: question id -> document
    attempts,      \* db.exam_attempts: attempt id -> document
    nextStudent,   \* number of student ids generated (uuid4 is never reused)
    nextExam,      \* number of exam ids generated
    nextQuestion,  \* number of question ids generated
    nextAttempt,   \* number of attempt ids generated
    nextToken,     \* number of session tokens generated (secrets.token_urlsafe)
    pc,            \* per request slot: the await the handler is suspended at
    local,         \* per request slot: the document id the handler has read
    resp,          \* the HTTP response sent last
    issued         \* history: every (token, student) a login has returned

vars == <<students, exams, questions, attempts, nextStudent, nextExam,
          nextQuestion, nextAttempt, nextToken, pc, local, resp, issued>>

-----------------------------------------------------------------------------
(* Bounds of the model *)

MaxStudents == 2
MaxTokens == 3
NumProcs == 2
MaxExams == 1
MaxQuestions == 4
MaxAttempts == 2
MaxOrganizeQuestions == 2
MaxLifecycleAttempts == 1
MaxDeleteExams == 2
MaxSuspicious == 2
MaxLines == 4

Procs == 1..NumProcs

-----------------------------------------------------------------------------
(* Values *)

\* Python None in active_session_id (tokens are the integers 1, 2, ...).
NoSession == 0
\* Python None in last_login_device.
NoDevice == "none"
\* last_login_time before the first login (the key is not in the document).
NoTime == 0

DefaultPassword == "Student@123"
LoginDevice == "Device"

Min(S) == CHOOSE x \in S : \A y \in S : x <= y

\* A roll number is the sequence of its characters.
Letters == {"A", "B", "X"}
Digits == {"1", "2", "3", "4", "5", "6", "7", "8", "9", "0"}
RollA == <<"A", "B", "1", "2", "3", "4", "5", "6", "7", "X">>
RollB == <<"A", "B", "1", "2", "3", "4", "5", "6", "7", "8">>
RollShort == <<"A", "B", "1", "2">>
RollHyphen == <<"A", "B", "1", "2", "-", "3", "4", "5", "6", "X">>
RollLong == <<"A", "B", "1", "2", "3", "4", "5", "6", "7", "8", "9">>
RollEmpty == <<>>
ValidRolls == {RollA, RollB}

\* The alphanumeric check, were it to accept every non-empty string.
IsAlnumNonEmpty(s) == Len(s) > 0

\* str.isalnum(): non-empty and every character a letter or a digit.
IsAlnum(s) == Len(s) > 0 /\ \A i \in 1..Len(s) : s[i] \in Letters \cup Digits

RollLength == 10

-----------------------------------------------------------------------------
(* Responses *)

HttpError(op, code) == [op |-> op, status |-> code]

-----------------------------------------------------------------------------
(* Student identity and sessions *)

\* db.students.find_one({"roll_number": roll}): the first match, 0 if none.
FindByRoll(studs, roll) ==
    LET found == {s \in DOMAIN studs : studs[s].roll_number = roll}
    IN  IF found = {} THEN 0 ELSE Min(found)

\* db.students.find_one({"active_session_id": token}): the first match, 0 if none.
FindBySession(studs, token) ==
    LET found == {s \in DOMAIN studs : studs[s].active_session_id = token}
    IN  IF found = {} THEN 0 ELSE Min(found)

\* branch, year and semester as a registration or an exam configuration
\* carries them. ProfileB differs from ProfileA in the year only.
Profile(branch, year, semester) ==
    [branch |-> branch, year |-> year, semester |-> semester]
ProfileA == Profile("CSE", "1", "1")
ProfileB == Profile("CSE", "2", "1")

\* The document student_register inserts.
NewStudent(roll, profile) ==
    [roll_number |-> roll, branch |-> profile.branch, year |-> profile.year,
     semester |-> profile.semester, password |-> DefaultPassword,
     active_session_id |-> NoSession, last_login_device |-> NoDevice,
     last_login_time |-> NoTime]

\* The clock read by datetime.now(): one tick per session token generated.
Now == nextToken + 1

\* update_one({"id": sid}, {"$set": {active_session_id, last_login_device,
\* last_login_time}}) of student_login.
LoginUpdate(studs, sid, token, time) ==
    IF sid \in DOMAIN studs
    THEN [studs EXCEPT ![sid].active_session_id = token,
                       ![sid].last_login_device = LoginDevice,
                       ![sid].last_login_time = time]
    ELSE studs

\* The update of confirm_device_login, were it to keep a session already held.
ConfirmUpdateKeepsHeld(studs, sid, token, time) ==
    IF sid \in DOMAIN studs /\ studs[sid].active_session_id = NoSession
    THEN [studs EXCEPT ![sid].active_session_id = token,
                       ![sid].last_login_device = LoginDevice,
                       ![sid].last_login_time = time]
    ELSE studs

\* The same update in confirm_device_login.
ConfirmUpdate(studs, sid, token, time) ==
    IF sid \in DOMAIN studs
    THEN [studs EXCEPT ![sid].active_session_id = token,
                       ![sid].last_login_device = LoginDevice,
                       ![sid].last_login_time = time]
    ELSE studs

\* student_logout, were its update to leave the session in place.
LogoutUpdateKeepsSession(studs, sid) == studs

\* update_one({"id": sid}, {"$set": {"active_session_id": None}}) of student_logout.
LogoutUpdate(studs, sid) ==
    [studs EXCEPT ![sid].active_session_id = NoSession]

\* `if active_session_id:` of student_login on the document it has read.
HasActiveSessionUnchecked(student) == FALSE

HasActiveSession(student) == student.active_session_id # NoSession

\* The credential check, were it to accept any password of a known roll number.
CredentialsValidAnyPassword(studs, sid, password) == sid # 0

\* `if not student` and `if student['password'] != data.password` both passed.
CredentialsValid(studs, sid, password) ==
    sid # 0 /\ studs[sid].password = password

\* Tokens still to be generated by the handlers suspended before their update.
Pending == Cardinality({p \in Procs : pc[p] \in {"login_update", "confirm_update"}})

UNCHANGED_exam == UNCHANGED <<exams, questions, attempts, nextExam, nextQuestion, nextAttempt>>

\* student_register run with no other request between its find_one and its
\* insert_one.
student_register(roll, profile) ==
    /\ IF Len(roll) # RollLength \/ ~IsAlnum(roll) \/ FindByRoll(students, roll) # 0
       THEN /\ resp' = HttpError("student_register", 400)
            /\ UNCHANGED <<students, nextStudent>>
       ELSE /\ nextStudent < MaxStudents
            /\ students' = (nextStudent + 1 :> NewStudent(roll, profile)) @@ students
            /\ nextStudent' = nextStudent + 1
            /\ resp' = [op |-> "student_register", status |-> 200, success |-> TRUE]
    /\ UNCHANGED <<nextToken, pc, local, issued>>
    /\ UNCHANGED_exam

\* Registrations suspended between their duplicate check and their insert.
PendingRegister == Cardinality({p \in Procs : pc[p] = "register_insert"})

\* student_register up to its insert_one: the length check, the isalnum check
\* and the duplicate check on the result of find_one.
student_register_find(p, roll) ==
    /\ pc[p] = "idle"
    /\ IF Len(roll) # RollLength
       THEN /\ resp' = [op |-> "student_register", status |-> 400, roll_number |-> roll]
            /\ UNCHANGED <<pc, local>>
       ELSE IF ~IsAlnum(roll)
       THEN /\ resp' = [op |-> "student_register", status |-> 400, roll_number |-> roll]
            /\ UNCHANGED <<pc, local>>
       ELSE IF FindByRoll(students, roll) # 0
       THEN /\ resp' = [op |-> "student_register", status |-> 400, roll_number |-> roll]
            /\ UNCHANGED <<pc, local>>
       ELSE /\ nextStudent + PendingRegister < MaxStudents
            /\ pc' = [pc EXCEPT ![p] = "register_insert"]
            /\ local' = [local EXCEPT ![p] = roll]
            /\ UNCHANGED resp
    /\ UNCHANGED <<students, nextStudent, nextToken, issued>>
    /\ UNCHANGED_exam

\* student_register from its insert_one to the response; the suspended
\* registrations all carry ProfileA.
student_register_insert(p) ==
    /\ pc[p] = "register_insert"
    /\ students' = (nextStudent + 1 :> NewStudent(local[p], ProfileA)) @@ students
    /\ nextStudent' = nextStudent + 1
    /\ resp' = [op |-> "student_register", status |-> 200, roll_number |-> local[p]]
    /\ pc' = [pc EXCEPT ![p] = "idle"]
    /\ local' = [local EXCEPT ![p] = 0]
    /\ UNCHANGED <<nextToken, issued>>
    /\ UNCHANGED_exam

\* student_login up to its update_one: the credential check and the
\* active-session check on the document read by find_one.
student_login_find(p, roll, password) ==
    /\ pc[p] = "idle"
    /\ nextToken + Pending < MaxTokens
    /\ LET sid == FindByRoll(students, roll)
       IN  IF ~CredentialsValid(students, sid, password)
           THEN /\ resp' = HttpError("student_login", 401)
                /\ UNCHANGED <<pc, local>>
           ELSE IF HasActiveSession(students[sid])
           THEN /\ resp' = [op |-> "student_login", status |-> 200,
                            success |-> FALSE,
                            requires_device_confirmation |-> TRUE,
                            session_id |-> NoSession,
                            student_id |-> sid,
                            device |-> students[sid].last_login_device]
                /\ UNCHANGED <<pc, local>>
           ELSE /\ pc' = [pc EXCEPT ![p] = "login_update"]
                /\ local' = [local EXCEPT ![p] = sid]
                /\ UNCHANGED resp
    /\ UNCHANGED <<students, nextStudent, nextToken, issued>>
    /\ UNCHANGED_exam

\* student_login from its update_one to the response.
student_login_update(p) ==
    /\ pc[p] = "login_update"
    /\ LET token == nextToken + 1
           sid == local[p]
       IN  /\ students' = LoginUpdate(students, sid, token, Now)
           /\ nextToken' = token
           /\ issued' = issued \cup {[token |-> token, student_id |-> sid,
                                      op |-> "student_login"]}
           /\ resp' = [op |-> "student_login", status |-> 200,
                       success |-> TRUE,
                       requires_device_confirmation |-> FALSE,
                       session_id |-> token, student_id |-> sid,
                       device |-> NoDevice]
    /\ pc' = [pc EXCEPT ![p] = "idle"]
    /\ local' = [local EXCEPT ![p] = 0]
    /\ UNCHANGED nextStudent
    /\ UNCHANGED_exam

\* confirm_device_login up to its update_one.
confirm_device_login_find(p, roll, password, confirm_continue) ==
    /\ pc[p] = "idle"
    /\ nextToken + Pending < MaxTokens
    /\ LET sid == FindByRoll(students, roll)
       IN  IF ~CredentialsValid(students, sid, password)
           THEN /\ resp' = HttpError("confirm_device_login", 401)
                /\ UNCHANGED <<pc, local>>
           ELSE IF ~confirm_continue
           THEN /\ resp' = [op |-> "confirm_device_login", status |-> 200,
                            success |-> FALSE, cancelled |-> TRUE,
                            session_id |-> NoSession, student_id |-> sid]
                /\ UNCHANGED <<pc, local>>
           ELSE /\ pc' = [pc EXCEPT ![p] = "confirm_update"]
                /\ local' = [local EXCEPT ![p] = sid]
                /\ UNCHANGED resp
    /\ UNCHANGED <<students, nextStudent, nextToken, issued>>
    /\ UNCHANGED_exam

\* confirm_device_login from its update_one to the response.
confirm_device_login_update(p) ==
    /\ pc[p] = "confirm_update"
    /\ LET token == nextToken + 1
           sid == local[p]
       IN  /\ students' = ConfirmUpdate(students, sid, token, Now)
           /\ nextToken' = token
           /\ issued' = issued \cup {[token |-> token, student_id |-> sid,
                                      op |-> "confirm_device_login"]}
           /\ resp' = [op |-> "confirm_device_login", status |-> 200,
                       success |-> TRUE, cancelled |-> FALSE,
                       session_id |-> token, student_id |-> sid]
    /\ pc' = [pc EXCEPT ![p] = "idle"]
    /\ local' = [local EXCEPT ![p] = 0]
    /\ UNCHANGED nextStudent
    /\ UNCHANGED_exam

\* What validate_session answers for a token: the student id, or 0 for the 401.
ValidateResult(studs, token) == FindBySession(studs, token)

validate_session(token) ==
    /\ LET sid == ValidateResult(students, token)
       IN  resp' = IF sid = 0
                   THEN [op |-> "validate_session", status |-> 401,
                         session_id |-> token, student_id |-> 0]
                   ELSE [op |-> "validate_session", status |-> 200,
                         session_id |-> token, student_id |-> sid]
    /\ UNCHANGED <<students, nextStudent, nextToken, pc, local, issued>>
    /\ UNCHANGED_exam

student_logout(sid) ==
    /\ IF sid \in DOMAIN students
       THEN /\ students' = LogoutUpdate(students, sid)
            /\ resp' = [op |-> "student_logout", status |-> 200, student_id |-> sid]
       ELSE /\ resp' = [op |-> "student_logout", status |-> 404, student_id |-> sid]
            /\ UNCHANGED students
    /\ UNCHANGED <<nextStudent, nextToken, pc, local, issued>>
    /\ UNCHANGED_exam

-----------------------------------------------------------------------------
(* Uploaded documents and the question parser *)

\* Python None: a question's correct_answer when no option carries '*', and
\* what answers.get(question_id) gives when the attempt holds no answer.
PyNone == "None"

\* The section_id key is not in the question document ($unset, or never set).
NoSection == -1

\* score and total_questions of an attempt before submit_exam sets them.
NoScore == -1

\* An option line "A) text" of a question paragraph; star: the text holds '*'.
Opt(letter, star) == [letter |-> letter, star |-> star]

\* The letters the option pattern ^([A-D])\)\s*(.+)$ accepts.
OptionLetters == {"A", "B", "C", "D"}

\* A line that is no option line and holds no code indicator.
TextLine == [letter |-> "text", star |-> FALSE]

\* A line that is no option line and holds one of the code indicators.
CodeLine == [letter |-> "code", star |-> FALSE]

\* An embedded image (a drawing) among the parts of a question paragraph.
Drawing == [letter |-> "drawing", star |-> FALSE]

\* The per-line loop, were a line after the option lines to be classified
\* like one before them.
RECURSIVE ClassifyFromLeavesOptions(_, _, _, _, _)
ClassifyFromLeavesOptions(para, i, in_options, in_code, acc) ==
    IF i > Len(para) THEN acc
    ELSE IF para[i] = Drawing
    THEN ClassifyFromLeavesOptions(para, i + 1, in_options, in_code, acc)
    ELSE IF para[i].letter \in OptionLetters
    THEN ClassifyFromLeavesOptions(para, i + 1, TRUE, FALSE,
                                   [acc EXCEPT !.options = Append(@, para[i])])
    ELSE IF in_code \/ para[i] = CodeLine
    THEN ClassifyFromLeavesOptions(para, i + 1, FALSE, TRUE,
                                   [acc EXCEPT !.code_lines = Append(@, i)])
    ELSE ClassifyFromLeavesOptions(para, i + 1, FALSE, in_code,
                                   [acc EXCEPT !.question_lines = Append(@, i)])

\* The per-line loop of upload_questions over the parts of a paragraph, from
\* part i on. A line is kept by its position in the paragraph. in_code is
\* only read before the first option line, so its reset on an option line is
\* kept although nothing reads it afterwards.
RECURSIVE ClassifyFrom(_, _, _, _, _)
ClassifyFrom(para, i, in_options, in_code, acc) ==
    IF i > Len(para) THEN acc
    ELSE IF para[i] = Drawing
    THEN ClassifyFrom(para, i + 1, in_options, in_code, acc)
    ELSE IF para[i].letter \in OptionLetters
    THEN ClassifyFrom(para, i + 1, TRUE, FALSE,
                      [acc EXCEPT !.options = Append(@, para[i])])
    ELSE IF in_options
    THEN ClassifyFrom(para, i + 1, in_options, in_code, acc)
    ELSE IF in_code \/ para[i] = CodeLine
    THEN ClassifyFrom(para, i + 1, in_options, TRUE,
                      [acc EXCEPT !.code_lines = Append(@, i)])
    ELSE ClassifyFrom(para, i + 1, in_options, in_code,
                      [acc EXCEPT !.question_lines = Append(@, i)])

\* question_lines, code_lines and options of a paragraph after the loop.
Classify(para) ==
    ClassifyFrom(para, 1, FALSE, FALSE,
                 [question_lines |-> <<>>, code_lines |-> <<>>, options |-> <<>>])

\* The correct-answer scan of upload_questions: each starred option
\* overwrites correct_answer, so the last one stays.
RECURSIVE CorrectAnswerFrom(_, _, _)
CorrectAnswerFrom(options, i, acc) ==
    IF i > Len(options) THEN acc
    ELSE CorrectAnswerFrom(options, i + 1,
                           IF options[i].star THEN options[i].letter ELSE acc)

CorrectAnswer(options) == CorrectAnswerFrom(options, 1, PyNone)

\* opt['value'].replace('*', '').strip() of the same scan: the value of
\* every starred option loses its asterisks.
StripStars(options) ==
    [i \in 1..Len(options) |-> [options[i] EXCEPT !.star = FALSE]]

\* upload_result['secure_url'] and upload_result['public_id'] of the image host.
SecureUrl == "secure_url"
PublicId == "public_id"

\* The option lines of a paragraph.
Options(para) == Classify(para).options

\* question_images.get(question_number): the URL of the image uploaded for a
\* drawing of the question's paragraph, None without one.
QuestionImage(para) ==
    IF \E i \in 1..Len(para) : para[i] = Drawing THEN SecureUrl ELSE PyNone

\* The questions parsed from a document (a sequence of paragraphs, each the
\* sequence of its lines and drawings): a paragraph without options gives
\* none.
RECURSIVE ParseDocument(_)
ParseDocument(doc) ==
    IF doc = <<>> THEN <<>>
    ELSE LET rest == ParseDocument(Tail(doc))
             lines == Classify(Head(doc))
         IN  IF lines.options = <<>> THEN rest
             ELSE <<[question_text |-> lines.question_lines,
                     code_snippet |-> lines.code_lines,
                     options |-> StripStars(lines.options),
                     correct_answer |-> CorrectAnswer(lines.options),
                     image_url |-> QuestionImage(Head(doc))]>> \o rest

-----------------------------------------------------------------------------
(* Exam configuration, questions and sections *)

UNCHANGED_session == UNCHANGED <<nextToken, pc, local, issued>>

\* ExamConfig(**config.model_dump()) as create_exam_config inserts it.
NewExam(profile) ==
    [branch |-> profile.branch, year |-> profile.year,
     semester |-> profile.semester, questions_uploaded |-> FALSE,
     questions_count |-> 0, questions_per_student |-> 0, sections |-> <<>>]

create_exam_config(profile) ==
    /\ exams' = (nextExam + 1 :> NewExam(profile)) @@ exams
    /\ nextExam' = nextExam + 1
    /\ resp' = [op |-> "create_exam_config", status |-> 200, exam_id |-> nextExam + 1]
    /\ UNCHANGED <<students, nextStudent, questions, attempts, nextQuestion, nextAttempt>>
    /\ UNCHANGED_session

\* The question documents upload_questions inserts for the parsed questions.
NewQuestions(exam_id, parsed, first) ==
    [q \in first..(first + Len(parsed) - 1) |->
        [exam_id |-> exam_id,
         question_text |-> parsed[q - first + 1].question_text,
         code_snippet |-> parsed[q - first + 1].code_snippet,
         options |-> parsed[q - first + 1].options,
         correct_answer |-> parsed[q - first + 1].correct_answer,
         image_url |-> parsed[q - first + 1].image_url,
         image_public_id |-> PyNone,
         section_id |-> NoSection]]

\* The $set of upload_questions, were it to add to the counts of the exam.
UploadUpdateAccumulates(exs, exam_id, n) ==
    IF exam_id \in DOMAIN exs
    THEN [exs EXCEPT ![exam_id].questions_uploaded = TRUE,
                     ![exam_id].questions_count = @ + n,
                     ![exam_id].questions_per_student = @ + n]
    ELSE exs

\* The $set of upload_questions on the exam (no document matches an unknown id).
UploadUpdate(exs, exam_id, n) ==
    IF exam_id \in DOMAIN exs
    THEN [exs EXCEPT ![exam_id].questions_uploaded = TRUE,
                     ![exam_id].questions_count = n,
                     ![exam_id].questions_per_student = n]
    ELSE exs

\* The HTTPException(400) for "no questions" is raised inside the handler's
\* try block, whose `except Exception` turns it into a 500.
upload_questions(exam_id, doc) ==
    /\ LET parsed == ParseDocument(doc)
           n == Len(parsed)
       IN  IF n = 0
           THEN /\ resp' = [op |-> "upload_questions", status |-> 500,
                            doc |-> doc]
                /\ UNCHANGED <<questions, nextQuestion, exams>>
           ELSE /\ questions' = NewQuestions(exam_id, parsed, nextQuestion + 1) @@ questions
                /\ nextQuestion' = nextQuestion + n
                /\ exams' = UploadUpdate(exams, exam_id, n)
                /\ resp' = [op |-> "upload_questions", status |-> 200,
                            exam_id |-> exam_id, doc |-> doc,
                            questions_count |-> n]
    /\ UNCHANGED <<students, nextStudent, attempts, nextExam, nextAttempt>>
    /\ UNCHANGED_session

configure_question_count(exam_id, count) ==
    /\ exams' = IF exam_id \in DOMAIN exams
                THEN [exams EXCEPT ![exam_id].questions_per_student = count]
                ELSE exams
    /\ resp' = [op |-> "configure_question_count", status |-> 200, exam_id |-> exam_id]
    /\ UNCHANGED <<students, nextStudent, questions, attempts, nextExam,
                   nextQuestion, nextAttempt>>
    /\ UNCHANGED_session

\* A section {name, question_ids} of the request body.
Section(ids) == [question_ids |-> ids]

\* total_assigned: the sum of len(question_ids) over the sections.
RECURSIVE TotalAssigned(_)
TotalAssigned(sections) ==
    IF sections = <<>> THEN 0
    ELSE Len(Head(sections).question_ids) + TotalAssigned(Tail(sections))

Range(seq) == {seq[i] : i \in 1..Len(seq)}

\* all_assigned_ids: every id some section lists.
AllAssignedIds(sections) ==
    UNION {Range(sections[i].question_ids) : i \in 1..Len(sections)}

\* update_one({"id": question_id, "exam_id": exam_id}, {"$set": {"section_id":
\* section_idx}}) for every id of one section.
StampSection(qs, exam_id, ids, section_idx) ==
    [q \in DOMAIN qs |->
        IF q \in Range(ids) /\ qs[q].exam_id = exam_id
        THEN [qs[q] EXCEPT !.section_id = section_idx]
        ELSE qs[q]]

\* The loop over enumerate(sections), from section i (1-based) on.
RECURSIVE StampSections(_, _, _, _)
StampSections(qs, exam_id, sections, i) ==
    IF i > Len(sections) THEN qs
    ELSE StampSections(StampSection(qs, exam_id, sections[i].question_ids, i - 1),
                       exam_id, sections, i + 1)

\* organize_sections without its update_many.
UnsetNothing(qs, exam_id, sections) == qs

\* update_many({"exam_id": exam_id, "id": {"$nin": all_assigned_ids}},
\* {"$unset": {"section_id": ""}}).
UnsetUnassigned(qs, exam_id, sections) ==
    [q \in DOMAIN qs |->
        IF qs[q].exam_id = exam_id /\ q \notin AllAssignedIds(sections)
        THEN [qs[q] EXCEPT !.section_id = NoSection]
        ELSE qs[q]]

\* The $set of organize_sections, were it to count each listed id once.
OrganizeUpdateDistinct(exs, exam_id, sections) ==
    [exs EXCEPT ![exam_id].sections = sections,
                ![exam_id].questions_per_student =
                    Cardinality(AllAssignedIds(sections))]

\* The $set of organize_sections, were it to add to questions_per_student.
OrganizeUpdateAccumulates(exs, exam_id, sections) ==
    [exs EXCEPT ![exam_id].sections = sections,
                ![exam_id].questions_per_student = @ + TotalAssigned(sections)]

\* The $set of organize_sections on the exam.
OrganizeUpdate(exs, exam_id, sections) ==
    [exs EXCEPT ![exam_id].sections = sections,
                ![exam_id].questions_per_student = TotalAssigned(sections)]

\* The HTTPException(404) is raised inside the try block, whose
\* `except Exception` turns it into a 500.
organize_sections(exam_id, sections) ==
    /\ IF exam_id \notin DOMAIN exams
       THEN /\ resp' = HttpError("organize_sections", 500)
            /\ UNCHANGED <<exams, questions>>
       ELSE /\ exams' = OrganizeUpdate(exams, exam_id, sections)
            /\ questions' = UnsetUnassigned(
                                StampSections(questions, exam_id, sections, 1),
                                exam_id, sections)
            /\ resp' = [op |-> "organize_sections", status |-> 200,
                        exam_id |-> exam_id, sections |-> sections,
                        questions_assigned |-> TotalAssigned(sections)]
    /\ UNCHANGED <<students, nextStudent, attempts, nextExam, nextQuestion, nextAttempt>>
    /\ UNCHANGED_session

\* The update_one calls of the loop over the sections in the order they are
\* issued: <<question id, section index>> for every listed id.
RECURSIVE StampsFrom(_, _)
StampsFrom(sections, i) ==
    IF i > Len(sections) THEN <<>>
    ELSE [k \in 1..Len(sections[i].question_ids) |->
              <<sections[i].question_ids[k], i - 1>>]
         \o StampsFrom(sections, i + 1)

\* What a suspended organize_sections keeps: exam_id, sections and the number
\* of update_one calls of the loop already made.
OrganizeLocal(exam_id, sections, done) ==
    [exam_id |-> exam_id, sections |-> sections, done |-> done]

\* The next suspension point of the loop: another update_one, or update_many.
OrganizeAfter(sections, done) ==
    IF done < Len(StampsFrom(sections, 1)) THEN "organize_stamp" ELSE "organize_unset"

\* organize_sections up to its update_one on the exam: the find_one and the
\* 404 that `except Exception` turns into a 500.
organize_sections_find(p, exam_id, sections) ==
    /\ pc[p] = "idle"
    /\ IF exam_id \notin DOMAIN exams
       THEN /\ resp' = HttpError("organize_sections", 500)
            /\ UNCHANGED <<pc, local>>
       ELSE /\ pc' = [pc EXCEPT ![p] = "organize_set"]
            /\ local' = [local EXCEPT ![p] = OrganizeLocal(exam_id, sections, 0)]
            /\ UNCHANGED resp
    /\ UNCHANGED <<students, nextStudent, nextToken, issued>>
    /\ UNCHANGED_exam

\* The update_one on the exam; it matches nothing when the exam is gone.
organize_sections_set(p) ==
    /\ pc[p] = "organize_set"
    /\ exams' = IF local[p].exam_id \in DOMAIN exams
                THEN OrganizeUpdate(exams, local[p].exam_id, local[p].sections)
                ELSE exams
    /\ pc' = [pc EXCEPT ![p] = OrganizeAfter(local[p].sections, 0)]
    /\ UNCHANGED <<students, nextStudent, nextToken, issued, local, resp,
                   questions, attempts, nextExam, nextQuestion, nextAttempt>>

\* One update_one of the loop over the sections.
organize_sections_stamp(p) ==
    /\ pc[p] = "organize_stamp"
    /\ LET stamp == StampsFrom(local[p].sections, 1)[local[p].done + 1]
       IN  questions' = StampSection(questions, local[p].exam_id,
                                     <<stamp[1]>>, stamp[2])
    /\ pc' = [pc EXCEPT ![p] = OrganizeAfter(local[p].sections, local[p].done + 1)]
    /\ local' = [local EXCEPT ![p].done = @ + 1]
    /\ UNCHANGED <<students, nextStudent, nextToken, issued, resp,
                   exams, attempts, nextExam, nextQuestion, nextAttempt>>

\* The update_many that unsets the ids no section lists, and the response.
organize_sections_unset(p) ==
    /\ pc[p] = "organize_unset"
    /\ questions' = UnsetUnassigned(questions, local[p].exam_id, local[p].sections)
    /\ resp' = [op |-> "organize_sections", status |-> 200,
                exam_id |-> local[p].exam_id, sections |-> local[p].sections,
                questions_assigned |-> TotalAssigned(local[p].sections)]
    /\ pc' = [pc EXCEPT ![p] = "idle"]
    /\ local' = [local EXCEPT ![p] = 0]
    /\ UNCHANGED <<students, nextStudent, nextToken, issued,
                   exams, attempts, nextExam, nextQuestion, nextAttempt>>

-----------------------------------------------------------------------------
(* Exam attempts *)

\* The sectioned-question filter, were it a truthiness test (0 is falsy).
SectionedQuestionsTruthy(qs, exam_id) ==
    {q \in DOMAIN qs : qs[q].exam_id = exam_id /\ qs[q].section_id > 0}

\* find({"exam_id": exam_id, "section_id": {"$exists": True, "$ne": None}}).
SectionedQuestions(qs, exam_id) ==
    {q \in DOMAIN qs : qs[q].exam_id = exam_id /\ qs[q].section_id # NoSection}

\* The completed-attempt lookup, were it to leave out "completed": True.
HasAnyAttempt(atts, student_id, exam_id) ==
    \E a \in DOMAIN atts :
        /\ atts[a].student_id = student_id
        /\ atts[a].exam_id = exam_id

\* find_one({"student_id": .., "exam_id": .., "completed": True}) finds one.
HasCompletedAttempt(atts, student_id, exam_id) ==
    \E a \in DOMAIN atts :
        /\ atts[a].student_id = student_id
        /\ atts[a].exam_id = exam_id
        /\ atts[a].completed

\* ExamAttempt(student_id, exam_id).model_dump() plus question_ids.
NewAttempt(student_id, exam_id, question_ids) ==
    [student_id |-> student_id, exam_id |-> exam_id, answers |-> <<>>,
     marked_for_review |-> <<>>, completed |-> FALSE, score |-> NoScore,
     total_questions |-> NoScore, suspicious_activity_count |-> 0,
     question_ids |-> question_ids]

start_exam(exam_id, student_id) ==
    /\ IF student_id \notin DOMAIN students \/ exam_id \notin DOMAIN exams
       THEN /\ resp' = [op |-> "start_exam", status |-> 404,
                        exam_id |-> exam_id, student_id |-> student_id]
            /\ UNCHANGED <<attempts, nextAttempt>>
       ELSE IF HasCompletedAttempt(attempts, student_id, exam_id)
               \/ SectionedQuestions(questions, exam_id) = {}
       THEN /\ resp' = [op |-> "start_exam", status |-> 400,
                        exam_id |-> exam_id, student_id |-> student_id]
            /\ UNCHANGED <<attempts, nextAttempt>>
       ELSE /\ attempts' = (nextAttempt + 1 :>
                               NewAttempt(student_id, exam_id,
                                          SectionedQuestions(questions, exam_id)))
                           @@ attempts
            /\ nextAttempt' = nextAttempt + 1
            /\ resp' = [op |-> "start_exam", status |-> 200,
                        exam_id |-> exam_id, student_id |-> student_id,
                        attempt_id |-> nextAttempt + 1,
                        questions |-> SectionedQuestions(questions, exam_id)]
    /\ UNCHANGED <<students, nextStudent, exams, questions, nextExam, nextQuestion>>
    /\ UNCHANGED_session

\* Start requests suspended between their reads and their insert_one.
PendingStart == Cardinality({p \in Procs : pc[p] = "start_insert"})

\* start_exam up to its insert_one: the four reads and the checks on them;
\* what it keeps is the attempt document it has built.
start_exam_find(p, exam_id, student_id) ==
    /\ pc[p] = "idle"
    /\ IF student_id \notin DOMAIN students \/ exam_id \notin DOMAIN exams
       THEN /\ resp' = [op |-> "start_exam", status |-> 404,
                        exam_id |-> exam_id, student_id |-> student_id]
            /\ UNCHANGED <<pc, local>>
       ELSE IF HasCompletedAttempt(attempts, student_id, exam_id)
               \/ SectionedQuestions(questions, exam_id) = {}
       THEN /\ resp' = [op |-> "start_exam", status |-> 400,
                        exam_id |-> exam_id, student_id |-> student_id]
            /\ UNCHANGED <<pc, local>>
       ELSE /\ nextAttempt + PendingStart < MaxAttempts
            /\ pc' = [pc EXCEPT ![p] = "start_insert"]
            /\ local' = [local EXCEPT ![p] =
                            NewAttempt(student_id, exam_id,
                                       SectionedQuestions(questions, exam_id))]
            /\ UNCHANGED resp
    /\ UNCHANGED <<students, nextStudent, nextToken, issued>>
    /\ UNCHANGED_exam

\* start_exam from its insert_one to the response.
start_exam_insert(p) ==
    /\ pc[p] = "start_insert"
    /\ attempts' = (nextAttempt + 1 :> local[p]) @@ attempts
    /\ nextAttempt' = nextAttempt + 1
    /\ resp' = [op |-> "start_exam", status |-> 200,
                exam_id |-> local[p].exam_id, student_id |-> local[p].student_id,
                attempt_id |-> nextAttempt + 1,
                questions |-> local[p].question_ids]
    /\ pc' = [pc EXCEPT ![p] = "idle"]
    /\ local' = [local EXCEPT ![p] = 0]
    /\ UNCHANGED <<students, nextStudent, nextToken, issued,
                   exams, questions, nextExam, nextQuestion>>

\* The update of save_answer, were it to reopen the attempt it writes to.
SaveAnswerUpdateReopens(atts, attempt_id, question_id, answer) ==
    IF attempt_id \in DOMAIN atts
    THEN [atts EXCEPT ![attempt_id].answers = (question_id :> answer) @@ @,
                      ![attempt_id].completed = FALSE]
    ELSE atts

\* save_answer, were it to write to attempts that are not completed only.
SaveAnswerUpdateOpenOnly(atts, attempt_id, question_id, answer) ==
    IF attempt_id \in DOMAIN atts /\ ~atts[attempt_id].completed
    THEN [atts EXCEPT ![attempt_id].answers = (question_id :> answer) @@ @]
    ELSE atts

\* update_one({"id": attempt_id}, {"$set": {"answers.<question_id>": answer}}).
SaveAnswerUpdate(atts, attempt_id, question_id, answer) ==
    IF attempt_id \in DOMAIN atts
    THEN [atts EXCEPT ![attempt_id].answers = (question_id :> answer) @@ @]
    ELSE atts

save_answer(attempt_id, question_id, answer) ==
    /\ attempts' = SaveAnswerUpdate(attempts, attempt_id, question_id, answer)
    /\ resp' = [op |-> "save_answer", status |-> 200, attempt_id |-> attempt_id]
    /\ UNCHANGED <<students, nextStudent, exams, questions, nextExam,
                   nextQuestion, nextAttempt>>
    /\ UNCHANGED_session

\* answers.get(question_id).
AnswerGet(answers, question_id) ==
    IF question_id \in DOMAIN answers THEN answers[question_id] ELSE PyNone

\* The scoring loop: one point per question with
\* answers.get(q['id']) == q['correct_answer'].
Score(qs, answers, question_ids) ==
    Cardinality({q \in question_ids :
                    AnswerGet(answers, q) = qs[q].correct_answer})

\* The questions submit_exam scores, were it to score the whole exam.
SubmitQuestionsWholeExam(qs, attempt) ==
    {q \in DOMAIN qs : qs[q].exam_id = attempt.exam_id}

\* The questions submit_exam scores: those of question_ids still stored, or
\* every question of the exam when question_ids is empty.
SubmitQuestions(qs, attempt) ==
    IF attempt.question_ids # {}
    THEN {q \in DOMAIN qs : q \in attempt.question_ids}
    ELSE {q \in DOMAIN qs : qs[q].exam_id = attempt.exam_id}

submit_exam(attempt_id) ==
    /\ IF attempt_id \notin DOMAIN attempts
       THEN /\ resp' = [op |-> "submit_exam", status |-> 404,
                        attempt_id |-> attempt_id]
            /\ UNCHANGED attempts
       ELSE LET attempt == attempts[attempt_id]
                resolved == SubmitQuestions(questions, attempt)
                score == Score(questions, attempt.answers, resolved)
            IN  /\ attempts' = [attempts EXCEPT
                                   ![attempt_id].completed = TRUE,
                                   ![attempt_id].score = score,
                                   ![attempt_id].total_questions = Cardinality(resolved)]
                /\ resp' = [op |-> "submit_exam", status |-> 200,
                            attempt_id |-> attempt_id, score |-> score,
                            total |-> Cardinality(resolved)]
    /\ UNCHANGED <<students, nextStudent, exams, questions, nextExam,
                   nextQuestion, nextAttempt>>
    /\ UNCHANGED_session

\* list.remove(x): the list without its first x.
ListRemove(list, x) ==
    LET first == Min({i \in 1..Len(list) : list[i] = x})
    IN  SubSeq(list, 1, first - 1) \o SubSeq(list, first + 1, Len(list))

\* mark_for_review, were it to append without looking at the list.
MarkedAlwaysAppends(marked, question_id, mark) ==
    IF mark THEN Append(marked, question_id)
    ELSE IF question_id \in Range(marked)
    THEN ListRemove(marked, question_id)
    ELSE marked

\* The list mark_for_review writes back: question_id appended when mark is
\* set and it is not in the list, removed when mark is not set and it is.
Marked(marked, question_id, mark) ==
    IF mark /\ question_id \notin Range(marked)
    THEN Append(marked, question_id)
    ELSE IF ~mark /\ question_id \in Range(marked)
    THEN ListRemove(marked, question_id)
    ELSE marked

\* mark_for_review run with no other request between its find_one and its
\* update_one. For an unknown attempt find_one gives None and attempt.get
\* raises: the request ends in a 500 before any write.
mark_for_review(attempt_id, question_id, mark) ==
    /\ IF attempt_id \notin DOMAIN attempts
       THEN /\ resp' = [op |-> "mark_for_review", status |-> 500,
                        attempt_id |-> attempt_id]
            /\ UNCHANGED attempts
       ELSE /\ attempts' = [attempts EXCEPT ![attempt_id].marked_for_review =
                                Marked(@, question_id, mark)]
            /\ resp' = [op |-> "mark_for_review", status |-> 200,
                        attempt_id |-> attempt_id,
                        question_id |-> question_id, mark |-> mark]
    /\ UNCHANGED <<students, nextStudent, exams, questions, nextExam,
                   nextQuestion, nextAttempt>>
    /\ UNCHANGED_session

\* What a suspended mark_for_review keeps: its inputs and the list it built
\* from the document it read.
MarkLocal(attempt_id, question_id, mark, marked) ==
    [attempt_id |-> attempt_id, question_id |-> question_id, mark |-> mark,
     marked |-> marked]

\* mark_for_review up to its update_one: the find_one and the list built
\* from its result.
mark_for_review_find(p, attempt_id, question_id, mark) ==
    /\ pc[p] = "idle"
    /\ IF attempt_id \notin DOMAIN attempts
       THEN /\ resp' = [op |-> "mark_for_review", status |-> 500,
                        attempt_id |-> attempt_id]
            /\ UNCHANGED <<pc, local>>
       ELSE /\ pc' = [pc EXCEPT ![p] = "mark_update"]
            /\ local' = [local EXCEPT ![p] =
                            MarkLocal(attempt_id, question_id, mark,
                                      Marked(attempts[attempt_id].marked_for_review,
                                             question_id, mark))]
            /\ UNCHANGED resp
    /\ UNCHANGED <<students, nextStudent, nextToken, issued>>
    /\ UNCHANGED_exam

\* The update_one that writes the whole list back, and the response.
mark_for_review_update(p) ==
    /\ pc[p] = "mark_update"
    /\ attempts' = IF local[p].attempt_id \in DOMAIN attempts
                   THEN [attempts EXCEPT ![local[p].attempt_id].marked_for_review =
                            local[p].marked]
                   ELSE attempts
    /\ resp' = [op |-> "mark_for_review", status |-> 200,
                attempt_id |-> local[p].attempt_id,
                question_id |-> local[p].question_id, mark |-> local[p].mark]
    /\ pc' = [pc EXCEPT ![p] = "idle"]
    /\ local' = [local EXCEPT ![p] = 0]
    /\ UNCHANGED <<students, nextStudent, nextToken, issued,
                   exams, questions, nextExam, nextQuestion, nextAttempt>>

\* report_suspicious_activity, were it to $set the count of a first report.
SuspiciousUpdateSets(atts, attempt_id) ==
    IF attempt_id \in DOMAIN atts
    THEN [atts EXCEPT ![attempt_id].suspicious_activity_count = 1]
    ELSE atts

\* update_one({"id": attempt_id}, {"$inc": {"suspicious_activity_count": 1}}).
SuspiciousUpdate(atts, attempt_id) ==
    IF attempt_id \in DOMAIN atts
    THEN [atts EXCEPT ![attempt_id].suspicious_activity_count = @ + 1]
    ELSE atts

report_suspicious_activity(attempt_id) ==
    /\ attempts' = SuspiciousUpdate(attempts, attempt_id)
    /\ resp' = [op |-> "report_suspicious_activity", status |-> 200,
                attempt_id |-> attempt_id]
    /\ UNCHANGED <<students, nextStudent, exams, questions, nextExam,
                   nextQuestion, nextAttempt>>
    /\ UNCHANGED_session

\* attempt.get("questions", []): the attempt document has this key only if
\* some writer stored it.
RecordedQuestions(attempt) ==
    IF "questions" \in DOMAIN attempt THEN attempt.questions ELSE {}

\* The two HTTPException(404) are raised inside the try block, whose
\* `except Exception` turns them into a 500. The question query matches the
\* questions of the exam whose section_id or id is in the recorded list, and
\* every question of the exam is taken when it matches none.
get_exam_data(exam_id, attempt_id) ==
    /\ IF exam_id \notin DOMAIN exams \/ attempt_id \notin DOMAIN attempts
       THEN resp' = [op |-> "get_exam_data", status |-> 500,
                     exam_id |-> exam_id, attempt_id |-> attempt_id]
       ELSE LET recorded == RecordedQuestions(attempts[attempt_id])
                ofExam == {q \in DOMAIN questions : questions[q].exam_id = exam_id}
                matched == {q \in ofExam :
                               questions[q].section_id \in recorded \/ q \in recorded}
            IN  resp' = [op |-> "get_exam_data", status |-> 200,
                         exam_id |-> exam_id, attempt_id |-> attempt_id,
                         sections |-> exams[exam_id].sections,
                         questions |-> IF matched = {} THEN ofExam ELSE matched,
                         answers |-> attempts[attempt_id].answers,
                         marked_for_review |->
                             attempts[attempt_id].marked_for_review]
    /\ UNCHANGED <<students, nextStudent, exams, questions, attempts, nextExam,
                   nextQuestion, nextAttempt>>
    /\ UNCHANGED_session

-----------------------------------------------------------------------------
(* Question images and exam deletion *)

\* update_one({"id": question_id, "exam_id": exam_id}, {"$set": {image_url,
\* image_public_id}}) of upload_question_image.
ImageUpdate(qs, exam_id, question_id) ==
    [qs EXCEPT ![question_id].image_url = SecureUrl,
               ![question_id].image_public_id = PublicId]

\* The HTTPException(404) for matched_count == 0 is raised inside the try
\* block, whose `except Exception` turns it into a 500.
upload_question_image(exam_id, question_id) ==
    /\ IF question_id \in DOMAIN questions /\ questions[question_id].exam_id = exam_id
       THEN /\ questions' = ImageUpdate(questions, exam_id, question_id)
            /\ resp' = [op |-> "upload_question_image", status |-> 200,
                        exam_id |-> exam_id, question_id |-> question_id]
       ELSE /\ resp' = HttpError("upload_question_image", 500)
            /\ UNCHANGED questions
    /\ UNCHANGED <<students, nextStudent, exams, attempts, nextExam,
                   nextQuestion, nextAttempt>>
    /\ UNCHANGED_session

\* find({"exam_id": exam_id, "image_public_id": {"$exists": True, "$ne":
\* None}}): the questions whose image delete_exam_config asks the image host
\* to destroy.
QuestionsWithImages(qs, exam_id) ==
    {q \in DOMAIN qs : qs[q].exam_id = exam_id /\ qs[q].image_public_id # PyNone}

\* db.questions.delete_many({"exam_id": exam_id}).
DeleteQuestions(qs, exam_id) ==
    [q \in {r \in DOMAIN qs : qs[r].exam_id # exam_id} |-> qs[q]]

\* Exam deletion, were it to leave the attempts in place.
DeleteAttemptsNone(atts, exam_id) == atts

\* db.exam_attempts.delete_many({"exam_id": exam_id}).
DeleteAttempts(atts, exam_id) ==
    [a \in {b \in DOMAIN atts : atts[b].exam_id # exam_id} |-> atts[a]]

\* db.exams.delete_one({"id": exam_id}).
DeleteExam(exs, exam_id) ==
    [x \in DOMAIN exs \ {exam_id} |-> exs[x]]

\* delete_exam_config run with no other request between its database calls;
\* its HTTPException(404) is re-raised by `except HTTPException: raise`.
\* destroyed: the questions for whose image cloudinary.uploader.destroy was
\* called.
delete_exam_config(exam_id) ==
    /\ IF exam_id \notin DOMAIN exams
       THEN /\ resp' = [op |-> "delete_exam_config", status |-> 404,
                        exam_id |-> exam_id, destroyed |-> {}]
            /\ UNCHANGED <<exams, questions, attempts>>
       ELSE /\ questions' = DeleteQuestions(questions, exam_id)
            /\ attempts' = DeleteAttempts(attempts, exam_id)
            /\ exams' = DeleteExam(exams, exam_id)
            /\ resp' = [op |-> "delete_exam_config", status |-> 200,
                        exam_id |-> exam_id,
                        destroyed |-> QuestionsWithImages(questions, exam_id)]
    /\ UNCHANGED <<students, nextStudent, nextExam, nextQuestion, nextAttempt>>
    /\ UNCHANGED_session

-----------------------------------------------------------------------------
(* Results and reporting *)

\* The score and total the three result handlers recompute for an attempt:
\* against the questions of its exam that carry a section_id now.
\* The percentage, were a result without sectioned questions to count as a
\* full score.
PercentageFullWhenEmpty(score, total) ==
    IF total > 0 THEN (2 * score * 10000 + total) \div (2 * total) ELSE 10000

\* round((score / total_sectioned * 100) if total_sectioned > 0 else 0, 2),
\* in hundredths of a percent, rounded to the nearest.
Percentage(score, total) ==
    IF total > 0 THEN (2 * score * 10000 + total) \div (2 * total) ELSE 0

ResultRow(qs, atts, a) ==
    LET sectioned == SectionedQuestions(qs, atts[a].exam_id)
        score == Score(qs, atts[a].answers, sectioned)
    IN  [attempt_id |-> a,
         score |-> score,
         total |-> Cardinality(sectioned),
         percentage |-> Percentage(score, Cardinality(sectioned))]

\* get_results with no filter: one row per completed attempt whose student
\* and exam exist.
get_results ==
    /\ resp' = [op |-> "get_results", status |-> 200,
                rows |-> {ResultRow(questions, attempts, a) :
                            a \in {b \in DOMAIN attempts :
                                      /\ attempts[b].completed
                                      /\ attempts[b].student_id \in DOMAIN students
                                      /\ attempts[b].exam_id \in DOMAIN exams}}]
    /\ UNCHANGED <<students, nextStudent, exams, questions, attempts, nextExam,
                   nextQuestion, nextAttempt>>
    /\ UNCHANGED_session

\* The HTTPException(404) is raised inside the try block, whose
\* `except Exception` turns it into a 500.
get_exam_results(exam_id) ==
    /\ resp' = IF exam_id \notin DOMAIN exams
               THEN [op |-> "get_exam_results", status |-> 500, exam_id |-> exam_id]
               ELSE [op |-> "get_exam_results", status |-> 200, exam_id |-> exam_id,
                     rows |-> {ResultRow(questions, attempts, a) :
                                 a \in {b \in DOMAIN attempts :
                                           /\ attempts[b].exam_id = exam_id
                                           /\ attempts[b].completed
                                           /\ attempts[b].student_id \in DOMAIN students}}]
    /\ UNCHANGED <<students, nextStudent, exams, questions, attempts, nextExam,
                   nextQuestion, nextAttempt>>
    /\ UNCHANGED_session

get_student_results(student_id) ==
    /\ resp' = [op |-> "get_student_results", status |-> 200,
                student_id |-> student_id,
                rows |-> {ResultRow(questions, attempts, a) :
                            a \in {b \in DOMAIN attempts :
                                      /\ attempts[b].student_id = student_id
                                      /\ attempts[b].completed
                                      /\ attempts[b].exam_id \in DOMAIN exams}}]
    /\ UNCHANGED <<students, nextStudent, exams, questions, attempts, nextExam,
                   nextQuestion, nextAttempt>>
    /\ UNCHANGED_session

\* The exam filter of get_available_exams, were it to look at the branch only.
MatchingExamsBranchOnly(exs, student) ==
    {e \in DOMAIN exs : exs[e].branch = student.branch}

\* The find() filter on branch, year and semester of get_available_exams.
MatchingExams(exs, student) ==
    {e \in DOMAIN exs :
        /\ exs[e].branch = student.branch
        /\ exs[e].year = student.year
        /\ exs[e].semester = student.semester}

\* The HTTPException(404) is raised inside the try block, whose
\* `except Exception` turns it into a 500.
get_available_exams(student_id) ==
    /\ resp' = IF student_id \notin DOMAIN students
               THEN [op |-> "get_available_exams", status |-> 500,
                     student_id |-> student_id]
               ELSE [op |-> "get_available_exams", status |-> 200,
                     student_id |-> student_id,
                     exams |-> {[id |-> e,
                                 is_completed |->
                                     HasCompletedAttempt(attempts, student_id, e)] :
                                e \in MatchingExams(exams, students[student_id])}]
    /\ UNCHANGED <<students, nextStudent, exams, questions, attempts, nextExam,
                   nextQuestion, nextAttempt>>
    /\ UNCHANGED_session

\* The HTTPException(404) is raised inside the try block, whose
\* `except Exception` turns it into a 500.
get_sections(exam_id) ==
    /\ resp' = IF exam_id \notin DOMAIN exams
               THEN [op |-> "get_sections", status |-> 500, exam_id |-> exam_id]
               ELSE [op |-> "get_sections", status |-> 200, exam_id |-> exam_id,
                     sections |-> exams[exam_id].sections]
    /\ UNCHANGED <<students, nextStudent, exams, questions, attempts, nextExam,
                   nextQuestion, nextAttempt>>
    /\ UNCHANGED_session

\* The HTTPException(404) is raised inside the try block, whose
\* `except Exception` turns it into a 500.
get_exam_status(exam_id) ==
    /\ resp' = IF exam_id \notin DOMAIN exams
               THEN [op |-> "get_exam_status", status |-> 500, exam_id |-> exam_id]
               ELSE LET all_questions ==
                            Cardinality({q \in DOMAIN questions :
                                            questions[q].exam_id = exam_id})
                        sectioned_questions ==
                            Cardinality(SectionedQuestions(questions, exam_id))
                    IN  [op |-> "get_exam_status", status |-> 200,
                         exam_id |-> exam_id,
                         total_questions |-> all_questions,
                         sectioned_questions |-> sectioned_questions,
                         unassigned_questions |-> all_questions - sectioned_questions,
                         sections_count |-> Len(exams[exam_id].sections),
                         questions_per_student |->
                             exams[exam_id].questions_per_student]
    /\ UNCHANGED <<students, nextStudent, exams, questions, attempts, nextExam,
                   nextQuestion, nextAttempt>>
    /\ UNCHANGED_session

-----------------------------------------------------------------------------
(* Specifications *)

Empty == <<>>

Init ==
    /\ students = Empty
    /\ exams = Empty
    /\ questions = Empty
    /\ attempts = Empty
    /\ nextStudent = 0
    /\ nextExam = 0
    /\ nextQuestion = 0
    /\ nextAttempt = 0
    /\ nextToken = 0
    /\ pc = [p \in Procs |-> "idle"]
    /\ local = [p \in Procs |-> 0]
    /\ resp = [op |-> "none", status |-> 0]
    /\ issued = {}

Passwords == {DefaultPassword, "wrong"}

Register == \E roll \in ValidRolls : student_register(roll, ProfileA)
LoginFind == \E p \in Procs, roll \in ValidRolls, pw \in Passwords : student_login_find(p, roll, pw)
LoginUpdateStep == \E p \in Procs : student_login_update(p)
ConfirmFind == \E p \in Procs, roll \in ValidRolls, pw \in Passwords, c \in BOOLEAN : confirm_device_login_find(p, roll, pw, c)
ConfirmUpdateStep == \E p \in Procs : confirm_device_login_update(p)
Validate == \E t \in 1..MaxTokens : validate_session(t)
Logout == \E sid \in 1..MaxStudents : student_logout(sid)

\* The session manager: every request of the student identity component.
NextSession ==
    \/ Register
    \/ LoginFind
    \/ LoginUpdateStep
    \/ ConfirmFind
    \/ ConfirmUpdateStep
    \/ Validate
    \/ Logout

SpecSession == Init /\ [][NextSession]_vars

\* Request inputs of the exam configuration component.
ExamIds == 1..(MaxExams + 1)

\* Paragraphs: one starred option, no starred option, no option line at all.
ParaA == <<Opt("A", TRUE), Opt("B", FALSE)>>
ParaNoStar == <<Opt("A", FALSE), Opt("B", FALSE)>>
ParaNoOptions == <<>>
OrganizeDocs == {<<ParaA>>, <<ParaA, ParaNoOptions, ParaNoStar>>, <<ParaNoOptions>>}

\* Section lists: empty, one and two sections, an empty section, an id listed
\* in two sections, an id of no question.
OrganizeSectionLists ==
    { <<>>,
      <<Section(<<1>>)>>,
      <<Section(<<2, 1>>)>>,
      <<Section(<<>>), Section(<<1>>)>>,
      <<Section(<<1, 2>>), Section(<<1>>)>>,
      <<Section(<<1>>), Section(<<1>>)>>,
      <<Section(<<1, MaxQuestions + 1>>)>> }

QuestionCounts == {0, 2}

CreateExam == nextExam < MaxExams /\ create_exam_config(ProfileA)

\* The one exam that questions are uploaded to.
CreateExamFirst ==
    /\ nextExam = 0
    /\ create_exam_config(ProfileA)

UploadOrganize ==
    \E e \in ExamIds, doc \in OrganizeDocs :
        /\ nextQuestion + Len(ParseDocument(doc)) <= MaxOrganizeQuestions
        /\ upload_questions(e, doc)

Configure == \E e \in 1..MaxExams, c \in QuestionCounts : configure_question_count(e, c)

Organize == \E e \in ExamIds, secs \in OrganizeSectionLists : organize_sections(e, secs)

\* The exam configuration manager and the section organizer.
NextOrganize ==
    \/ CreateExamFirst
    \/ UploadOrganize
    \/ Configure
    \/ Organize

SpecOrganize == Init /\ [][NextOrganize]_vars

\* Request inputs of the exam attempt engine.
AttemptIds == 1..(MaxAttempts + 1)
StudentIds == 1..MaxStudents
\* The attempt engine is exercised on the first exam.
AttemptExamIds == {1}
\* One document: question 1 with correct answer A, question 2 with none.
AttemptDocs == {<<ParaA, ParaNoStar>>}
AttemptSectionLists ==
    { <<>>,
      <<Section(<<1>>)>>,
      <<Section(<<2>>), Section(<<1>>)>> }
\* (question id, answer): a right and a wrong answer to question 1, an answer
\* to question 2.
AnswerInputs == {<<1, "A">>, <<1, "B">>, <<2, "A">>}

RegisterOne == student_register(RollA, ProfileA)

UploadAttempt ==
    \E e \in AttemptExamIds, doc \in AttemptDocs :
        /\ nextQuestion + Len(ParseDocument(doc)) <= MaxQuestions
        /\ upload_questions(e, doc)

OrganizeAttempt == \E e \in AttemptExamIds, secs \in AttemptSectionLists : organize_sections(e, secs)

StartExam ==
    \E e \in ExamIds, s \in StudentIds :
        /\ start_exam(e, s)
        /\ nextAttempt' <= MaxAttempts

SaveAnswer == \E a \in AttemptIds, in \in AnswerInputs : save_answer(a, in[1], in[2])

Submit == \E a \in AttemptIds : submit_exam(a)

\* The exam attempt engine, with the administration it depends on.
NextAttempt ==
    \/ RegisterOne
    \/ CreateExam
    \/ UploadAttempt
    \/ OrganizeAttempt
    \/ StartExam
    \/ SaveAnswer
    \/ Submit

SpecAttempt == Init /\ [][NextAttempt]_vars

AllResults == get_results
ExamResults == \E e \in ExamIds : get_exam_results(e)
StudentResults == \E s \in StudentIds : get_student_results(s)

\* The attempt engine together with the result queries.
NextResults ==
    \/ NextAttempt
    \/ AllResults
    \/ ExamResults
    \/ StudentResults

SpecResults == Init /\ [][NextResults]_vars

SaveAnswerOne == \E a \in AttemptIds : save_answer(a, 1, "A")

\* Starting exams: the attempt engine with a single answer to save.
NextStart ==
    \/ RegisterOne
    \/ CreateExamFirst
    \/ UploadAttempt
    \/ OrganizeAttempt
    \/ StartExam
    \/ SaveAnswerOne
    \/ Submit

SpecStart == Init /\ [][NextStart]_vars

\* Registration requests: valid, too short, too long, empty, not alphanumeric.
RegisterRolls == ValidRolls \cup {RollShort, RollLong, RollEmpty, RollHyphen}

RegisterFind == \E p \in Procs, roll \in RegisterRolls : student_register_find(p, roll)
RegisterInsert == \E p \in Procs : student_register_insert(p)
LoginFindValid == \E p \in Procs, roll \in ValidRolls : student_login_find(p, roll, DefaultPassword)

\* Registrations interleaved at their awaits, with logins of the registered.
NextRegister ==
    \/ RegisterFind
    \/ RegisterInsert
    \/ LoginFindValid
    \/ LoginUpdateStep
    \/ Logout

SpecRegister == Init /\ [][NextRegister]_vars

\* Request inputs of the attempt life cycle: one exam, one student.
LifecycleAttemptIds == 1..(MaxLifecycleAttempts + 1)
LifecycleSectionLists == {<<>>, <<Section(<<1>>)>>}

OrganizeLifecycle == \E secs \in LifecycleSectionLists : organize_sections(1, secs)

UploadOnce ==
    /\ nextQuestion = 0
    /\ \E doc \in AttemptDocs : upload_questions(1, doc)

StartExamOne ==
    /\ start_exam(1, 1)
    /\ nextAttempt' <= MaxLifecycleAttempts

SaveAnswerLifecycle == \E a \in DOMAIN attempts : save_answer(a, 1, "A")

MarkForReview ==
    \E a \in LifecycleAttemptIds, mark \in BOOLEAN : mark_for_review(a, 1, mark)

ReportSuspiciousActivity ==
    \E a \in DOMAIN attempts :
        /\ attempts[a].suspicious_activity_count < MaxSuspicious
        /\ report_suspicious_activity(a)

SubmitLifecycle == \E a \in LifecycleAttemptIds : submit_exam(a)

\* The life cycle of an attempt: every request that writes to an attempt,
\* and the section organizer.
NextLifecycle ==
    \/ RegisterOne
    \/ CreateExam
    \/ UploadOnce
    \/ OrganizeLifecycle
    \/ StartExamOne
    \/ SaveAnswerLifecycle
    \/ MarkForReview
    \/ ReportSuspiciousActivity
    \/ SubmitLifecycle

SpecLifecycle == Init /\ [][NextLifecycle]_vars

\* The parser on every paragraph of at most MaxLines lines.
ParserParts ==
    {Opt("A", TRUE), Opt("A", FALSE), Opt("B", TRUE), TextLine, CodeLine}
ParserParagraphs == UNION {[1..n -> ParserParts] : n \in 0..MaxLines}
ParserDocs == {<<para>> : para \in ParserParagraphs}

UploadParser ==
    /\ nextQuestion = 0
    /\ \E doc \in ParserDocs : upload_questions(1, doc)

NextParser ==
    \/ CreateExam
    \/ UploadParser

SpecParser == Init /\ [][NextParser]_vars

\* The requests of the exam page on one attempt, and on an attempt id that was
\* never issued.
ReviewAttemptIds == {1, 2}
ReviewQuestionIds == {1, 2}

StartExamFirst ==
    /\ nextAttempt = 0
    /\ start_exam(1, 1)

MarkForReviewAny ==
    \E a \in ReviewAttemptIds, q \in ReviewQuestionIds, mark \in BOOLEAN :
        mark_for_review(a, q, mark)

ReportSuspiciousAny ==
    \E a \in ReviewAttemptIds :
        /\ a \in DOMAIN attempts =>
               attempts[a].suspicious_activity_count < MaxSuspicious
        /\ report_suspicious_activity(a)

SaveAnswerAny ==
    \E a \in ReviewAttemptIds, in \in AnswerInputs : save_answer(a, in[1], in[2])

GetExamData == \E a \in ReviewAttemptIds : get_exam_data(1, a)

NextReview ==
    \/ RegisterOne
    \/ CreateExam
    \/ UploadOnce
    \/ OrganizeLifecycle
    \/ StartExamFirst
    \/ SaveAnswerAny
    \/ MarkForReviewAny
    \/ ReportSuspiciousAny
    \/ SubmitLifecycle
    \/ GetExamData

SpecReview == Init /\ [][NextReview]_vars

\* Request inputs of exam deletion: a question with an embedded image and a
\* question without.
DeleteExamIds == 1..(MaxDeleteExams + 1)
ParaDrawing == <<Drawing, Opt("A", TRUE), Opt("B", FALSE)>>
DeleteDocs == {<<ParaDrawing>>, <<ParaA>>}
DeleteSectionLists == {<<Section(<<1, 2>>)>>}

CreateExamDelete == nextExam < MaxDeleteExams /\ create_exam_config(ProfileA)

\* One upload for each exam.
UploadDelete ==
    \E e \in DOMAIN exams, doc \in DeleteDocs :
        /\ ~exams[e].questions_uploaded
        /\ upload_questions(e, doc)

UploadQuestionImage ==
    \E e \in 1..MaxDeleteExams, q \in 1..MaxDeleteExams : upload_question_image(e, q)

OrganizeDelete ==
    \E e \in 1..MaxDeleteExams, secs \in DeleteSectionLists : organize_sections(e, secs)

\* One attempt for each exam.
StartExamDelete ==
    \E e \in 1..MaxDeleteExams :
        /\ ~HasAnyAttempt(attempts, 1, e)
        /\ start_exam(e, 1)

Delete == \E e \in DeleteExamIds : delete_exam_config(e)

\* Exam deletion, with the requests that create what it removes.
NextDelete ==
    \/ RegisterOne
    \/ CreateExamDelete
    \/ UploadDelete
    \/ UploadQuestionImage
    \/ OrganizeDelete
    \/ StartExamDelete
    \/ Delete

SpecDelete == Init /\ [][NextDelete]_vars

\* Logins and device confirmations, with right and wrong credentials.
NextCredentials ==
    \/ Register
    \/ LoginFind
    \/ LoginUpdateStep
    \/ ConfirmFind
    \/ ConfirmUpdateStep

SpecCredentials == Init /\ [][NextCredentials]_vars

\* Logins alone: nothing clears or takes over a session.
NextLogin ==
    \/ Register
    \/ LoginFind
    \/ LoginUpdateStep
    \/ Validate

SpecLogin == Init /\ [][NextLogin]_vars

\* The exam catalogue: a student and exams of either profile, with the
\* read-only requests on exams.
Profiles == {ProfileA, ProfileB}

RegisterProfile == \E profile \in Profiles : student_register(RollA, profile)

\* One exam for each profile.
CreateExamProfile ==
    \E profile \in Profiles :
        /\ \A e \in DOMAIN exams :
              Profile(exams[e].branch, exams[e].year, exams[e].semester) # profile
        /\ create_exam_config(profile)

AvailableExams == \E s \in StudentIds : get_available_exams(s)
GetSections == \E e \in DeleteExamIds : get_sections(e)
GetStatus == \E e \in DeleteExamIds : get_exam_status(e)
GetExamDataAny ==
    \E e \in DeleteExamIds, a \in ReviewAttemptIds : get_exam_data(e, a)

NextCatalog ==
    \/ RegisterProfile
    \/ CreateExamProfile
    \/ UploadDelete
    \/ OrganizeDelete
    \/ StartExamDelete
    \/ SubmitLifecycle
    \/ AvailableExams
    \/ GetSections
    \/ GetStatus
    \/ GetExamDataAny
    \/ ExamResults

SpecCatalog == Init /\ [][NextCatalog]_vars

\* The result queries on one attempt of one exam.
NextPercent ==
    \/ RegisterOne
    \/ CreateExamFirst
    \/ UploadOnce
    \/ OrganizeLifecycle
    \/ StartExamFirst
    \/ SaveAnswerLifecycle
    \/ SubmitLifecycle
    \/ AllResults
    \/ ExamResults
    \/ StudentResults

SpecPercent == Init /\ [][NextPercent]_vars

\* Two organizers of one exam whose questions are uploaded, suspended at
\* every await.
ConcurrentSectionLists ==
    { <<Section(<<1>>), Section(<<2>>)>>, <<Section(<<2>>), Section(<<1>>)>>,
      <<Section(<<1>>)>> }

OrganizeFind ==
    \E p \in Procs, secs \in ConcurrentSectionLists :
        /\ nextQuestion > 0
        /\ organize_sections_find(p, 1, secs)
OrganizeSet == \E p \in Procs : organize_sections_set(p)
OrganizeStamp == \E p \in Procs : organize_sections_stamp(p)
OrganizeUnset == \E p \in Procs : organize_sections_unset(p)

NextConcurrentOrganize ==
    \/ CreateExamFirst
    \/ UploadOnce
    \/ OrganizeFind
    \/ OrganizeSet
    \/ OrganizeStamp
    \/ OrganizeUnset

SpecConcurrentOrganize == Init /\ [][NextConcurrentOrganize]_vars

\* Two mark_for_review requests on one attempt, suspended at the await.
MarkFind ==
    \E p \in Procs, q \in ReviewQuestionIds, mark \in BOOLEAN :
        mark_for_review_find(p, 1, q, mark)
MarkUpdate == \E p \in Procs : mark_for_review_update(p)

NextConcurrentMark ==
    \/ RegisterOne
    \/ CreateExamFirst
    \/ UploadOnce
    \/ OrganizeLifecycle
    \/ StartExamFirst
    \/ MarkFind
    \/ MarkUpdate

SpecConcurrentMark == Init /\ [][NextConcurrentMark]_vars

\* Uploads, of one or two questions, for an exam that exists.
UploadExisting ==
    \E e \in DOMAIN exams, doc \in {<<ParaA>>, <<ParaA, ParaNoStar>>} :
        /\ nextQuestion + Len(ParseDocument(doc)) <= MaxQuestions
        /\ upload_questions(e, doc)

\* Repeated uploads for one exam, with the organizer and the status query.
NextUploads ==
    \/ CreateExamFirst
    \/ UploadExisting
    \/ OrganizeAttempt
    \/ GetStatus

SpecUploads == Init /\ [][NextUploads]_vars

\* Answers are saved while the attempt is open.
SaveAnswerOpen ==
    \E a \in DOMAIN attempts, in \in AnswerInputs :
        /\ ~attempts[a].completed
        /\ save_answer(a, in[1], in[2])

\* One sitting from start to the result queries.
NextScores ==
    \/ RegisterOne
    \/ CreateExamFirst
    \/ UploadOnce
    \/ OrganizeAttempt
    \/ StartExamFirst
    \/ SaveAnswerOpen
    \/ SubmitLifecycle
    \/ ExamResults
    \/ StudentResults

SpecScores == Init /\ [][NextScores]_vars

\* Deleting an exam while attempts on it are being started and questions
\* are uploaded for it.
StartFind == \E p \in Procs : start_exam_find(p, 1, 1)
StartInsert == \E p \in Procs : start_exam_insert(p)

NextConcurrentDelete ==
    \/ RegisterOne
    \/ CreateExamFirst
    \/ UploadAttempt
    \/ OrganizeLifecycle
    \/ StartFind
    \/ StartInsert
    \/ Delete

SpecConcurrentDelete == Init /\ [][NextConcurrentDelete]_vars

-----------------------------------------------------------------------------
(* Claims: sessions *)

\* C1: a Login with valid credentials for a student who holds an active
\* session answers "requires device confirmation" with no session token and
\* changes no stored record (and starts no update).
C1_LoginOnActiveSessionChangesNothing ==
    [][\A p \in Procs, roll \in ValidRolls, pw \in Passwords :
        LET sid == FindByRoll(students, roll)
        IN  ( /\ student_login_find(p, roll, pw)
              /\ sid # 0
              /\ students[sid].password = pw
              /\ students[sid].active_session_id # NoSession )
            => /\ resp'.op = "student_login"
               /\ resp'.status = 200
               /\ resp'.requires_device_confirmation
               /\ resp'.session_id = NoSession
               /\ resp'.student_id = sid
               /\ students' = students
               /\ <<exams, questions, attempts>>' = <<exams, questions, attempts>>
               /\ issued' = issued
               /\ pc' = pc]_vars

\* C1 witness: the last response is a device-confirmation answer for a
\* student whose session is still the one held before.
C1_Witness ==
    /\ resp.op = "student_login"
    /\ resp.status = 200
    /\ resp.requires_device_confirmation
    /\ students[resp.student_id].active_session_id # NoSession

\* C2: when ConfirmDeviceLogin has just returned token S2 for a student,
\* validating S2 answers that student's id and validating any token issued
\* to that student before fails (401).
C2_ConfirmReplacesSession ==
    (resp.op = "confirm_device_login" /\ resp.status = 200 /\ resp.success)
    => /\ ValidateResult(students, resp.session_id) = resp.student_id
       /\ \A r \in issued :
             (r.student_id = resp.student_id /\ r.token # resp.session_id)
             => ValidateResult(students, r.token) = 0

\* C2 witness: a device-confirmed login has returned while an earlier token
\* of the same student exists.
C2_Witness ==
    /\ resp.op = "confirm_device_login"
    /\ resp.status = 200
    /\ resp.success
    /\ \E r \in issued :
          r.student_id = resp.student_id /\ r.token # resp.session_id

\* C3: of the Login requests for one student that read "no active session",
\* at most one returns success with a session token (nothing clears a
\* session in SpecLogin, so two successes are two interleaved requests).
C3_AtMostOneLoginSucceeds ==
    \A s \in DOMAIN students :
        Cardinality({r \in issued : r.student_id = s /\ r.op = "student_login"}) <= 1

-----------------------------------------------------------------------------
(* Claims: exam configuration and sections *)

\* The sum of the lengths of question_ids over a list of sections.
SumOfLengths(sections) ==
    LET RECURSIVE upto(_)
        upto(i) == IF i = 0 THEN 0
                   ELSE upto(i - 1) + Len(sections[i].question_ids)
    IN  upto(Len(sections))

\* C9 as stated: in every reachable state each exam's questions_per_student
\* equals the sum of the lengths of question_ids over its stored sections.
C9_QpsAlwaysSumOfSections ==
    \A e \in DOMAIN exams :
        exams[e].questions_per_student = SumOfLengths(exams[e].sections)

\* C9 amended: right after CreateExam and right after a successful Organize
\* the exam's questions_per_student equals the sum of the lengths of
\* question_ids over its stored sections; right after a successful
\* UploadQuestions on an existing exam it is the number of parsed questions.
C9_QpsSumAfterOrganize ==
    /\ (resp.op \in {"create_exam_config", "organize_sections"} /\ resp.status = 200)
       => exams[resp.exam_id].questions_per_student
            = SumOfLengths(exams[resp.exam_id].sections)
    /\ (resp.op = "upload_questions" /\ resp.status = 200
          /\ resp.exam_id \in DOMAIN exams)
       => exams[resp.exam_id].questions_per_student = resp.questions_count

\* C9 witness: an Organize has just stored sections whose lengths sum to a
\* value other than the exam's uploaded question count.
C9_Witness ==
    /\ resp.op = "organize_sections"
    /\ resp.status = 200
    /\ SumOfLengths(exams[resp.exam_id].sections) > 0
    /\ exams[resp.exam_id].questions_uploaded
    /\ exams[resp.exam_id].questions_count # SumOfLengths(exams[resp.exam_id].sections)

\* The 0-based indices of the sections of a list that name question q.
SectionsListing(sections, q) ==
    {i - 1 : i \in {j \in 1..Len(sections) :
                      \E k \in 1..Len(sections[j].question_ids) :
                          sections[j].question_ids[k] = q}}

\* C10 as stated: right after a successful Organize(exam, sections) every
\* question of the exam listed in sections[i] has section_id = i and every
\* question of the exam listed nowhere has no section_id.
C10_StampedWithEveryListingIndex ==
    (resp.op = "organize_sections" /\ resp.status = 200)
    => \A q \in DOMAIN questions :
          questions[q].exam_id = resp.exam_id
          => /\ \A i \in SectionsListing(resp.sections, q) :
                   questions[q].section_id = i
             /\ SectionsListing(resp.sections, q) = {}
                   => questions[q].section_id = NoSection

\* C10 amended: right after a successful Organize(exam, sections) every
\* question of the exam listed in some section has as section_id the highest
\* index of a section that lists it, and every question of the exam listed
\* nowhere has no section_id.
C10_StampedWithLastListingIndex ==
    (resp.op = "organize_sections" /\ resp.status = 200)
    => \A q \in DOMAIN questions :
          questions[q].exam_id = resp.exam_id
          => LET listing == SectionsListing(resp.sections, q)
             IN  IF listing = {}
                 THEN questions[q].section_id = NoSection
                 ELSE /\ questions[q].section_id \in listing
                      /\ \A i \in listing : i <= questions[q].section_id

\* C10 witness: an Organize has just run on an exam with a question listed in
\* two sections, and a question that was in a section is now listed nowhere.
C10_Witness ==
    /\ resp.op = "organize_sections"
    /\ resp.status = 200
    /\ \E q \in DOMAIN questions :
          /\ questions[q].exam_id = resp.exam_id
          /\ Cardinality(SectionsListing(resp.sections, q)) = 2
    /\ \E q \in DOMAIN questions :
          /\ questions[q].exam_id = resp.exam_id
          /\ SectionsListing(resp.sections, q) = {}

-----------------------------------------------------------------------------
(* Claims: exam attempts *)

\* C4 as stated: once an attempt is completed, no later operation changes
\* its answers, its score or its total_questions.
C4_CompletedAttemptImmutable ==
    [][\A a \in DOMAIN attempts :
        (attempts[a].completed /\ a \in DOMAIN attempts')
        => /\ attempts'[a].answers = attempts[a].answers
           /\ attempts'[a].score = attempts[a].score
           /\ attempts'[a].total_questions = attempts[a].total_questions]_vars

\* C5: StartExam for an existing student and exam answers 400 and creates no
\* attempt when the pair has a completed attempt or the exam has no question
\* with a section_id; otherwise it answers 200 and creates exactly one new
\* attempt, not completed, leaving the others as they were.
C5_StartExamRejectsOrCreatesOne ==
    [][(resp'.op = "start_exam"
         /\ resp'.student_id \in DOMAIN students
         /\ resp'.exam_id \in DOMAIN exams)
        => IF \/ \E a \in DOMAIN attempts :
                    /\ attempts[a].student_id = resp'.student_id
                    /\ attempts[a].exam_id = resp'.exam_id
                    /\ attempts[a].completed
              \/ ~\E q \in DOMAIN questions :
                     /\ questions[q].exam_id = resp'.exam_id
                     /\ questions[q].section_id # NoSection
           THEN /\ resp'.status = 400
                /\ attempts' = attempts
           ELSE /\ resp'.status = 200
                /\ resp'.attempt_id \notin DOMAIN attempts
                /\ DOMAIN attempts' = DOMAIN attempts \cup {resp'.attempt_id}
                /\ attempts'[resp'.attempt_id].completed = FALSE
                /\ attempts'[resp'.attempt_id].student_id = resp'.student_id
                /\ attempts'[resp'.attempt_id].exam_id = resp'.exam_id
                /\ \A a \in DOMAIN attempts : attempts'[a] = attempts[a]]_vars

\* C5 witness: a StartExam has just been rejected with 400 for a pair that
\* holds a completed attempt, after a second attempt of the pair was started.
C5_Witness ==
    /\ resp.op = "start_exam"
    /\ resp.status = 400
    /\ Cardinality(DOMAIN attempts) = 2
    /\ \E a \in DOMAIN attempts :
          /\ attempts[a].student_id = resp.student_id
          /\ attempts[a].exam_id = resp.exam_id
          /\ attempts[a].completed
    /\ \E q \in DOMAIN questions :
          questions[q].exam_id = resp.exam_id /\ questions[q].section_id # NoSection

\* C6: the question_ids of an attempt created by StartExam is the set of the
\* exam's questions that carry a section_id (0 included) when it starts, and
\* no later step changes the question_ids of an attempt.
C6_QuestionIdsFrozenAtStart ==
    [][/\ \A a \in DOMAIN attempts' \ DOMAIN attempts :
            attempts'[a].question_ids =
                {q \in DOMAIN questions :
                    /\ questions[q].exam_id = attempts'[a].exam_id
                    /\ questions[q].section_id # NoSection}
       /\ \A a \in DOMAIN attempts \cap DOMAIN attempts' :
            attempts'[a].question_ids = attempts[a].question_ids]_vars

\* C6 witness: a submitted attempt holds a question of section 0, and its
\* question_ids is no longer the set of the exam's sectioned questions.
C6_Witness ==
    \E a \in DOMAIN attempts :
        /\ attempts[a].completed
        /\ \E q \in attempts[a].question_ids : questions[q].section_id = 0
        /\ attempts[a].question_ids #
               {q \in DOMAIN questions :
                   /\ questions[q].exam_id = attempts[a].exam_id
                   /\ questions[q].section_id # NoSection}
        /\ exams[attempts[a].exam_id].questions_count < Cardinality(DOMAIN questions)

\* The questions of a set for which the stored answer is the correct answer.
AnsweredCorrectly(answers, qids) ==
    {q \in qids \cap DOMAIN questions :
        q \in DOMAIN answers /\ answers[q] = questions[q].correct_answer}

\* C7 as stated: Submit on an existing attempt sets completed, sets score to
\* the number of still-existing questions of question_ids whose stored
\* answer equals the correct answer and total_questions to the number of
\* still-existing questions of question_ids, and returns both; Submit on an
\* unknown attempt id answers 404 and changes no stored state.
C7_SubmitScoresStoredAnswers ==
    [][resp'.op = "submit_exam"
        => IF resp'.attempt_id \in DOMAIN attempts
           THEN LET att == attempts'[resp'.attempt_id]
                IN  /\ resp'.status = 200
                    /\ att.completed
                    /\ att.score = Cardinality(AnsweredCorrectly(att.answers, att.question_ids))
                    /\ att.total_questions = Cardinality(att.question_ids \cap DOMAIN questions)
                    /\ resp'.score = att.score
                    /\ resp'.total = att.total_questions
           ELSE /\ resp'.status = 404
                /\ <<students, exams, questions, attempts>>'
                     = <<students, exams, questions, attempts>>]_vars

\* C8 as stated: for every completed attempt the result queries report
\* score = the number of questions of its exam that carry a section_id now
\* and whose stored answer equals the correct answer, and total = the number
\* of those sectioned questions.
C8_ResultsScoreSectionedStoredAnswers ==
    (resp.op \in {"get_results", "get_exam_results", "get_student_results"}
      /\ resp.status = 200)
    => \A a \in DOMAIN attempts :
          ( /\ attempts[a].completed
            /\ resp.op = "get_exam_results" => attempts[a].exam_id = resp.exam_id
            /\ resp.op = "get_student_results" => attempts[a].student_id = resp.student_id )
          => LET sectioned == {q \in DOMAIN questions :
                                  /\ questions[q].exam_id = attempts[a].exam_id
                                  /\ questions[q].section_id # NoSection}
             IN  \E row \in resp.rows :
                    /\ row.attempt_id = a
                    /\ row.score = Cardinality(AnsweredCorrectly(attempts[a].answers, sectioned))
                    /\ row.total = Cardinality(sectioned)

-----------------------------------------------------------------------------
(* Claims: registration, logout and failed logins *)

\* C14: a Register request passes its checks exactly when the roll number is
\* 10 characters long, all letters and digits, and no stored student has it
\* when the duplicate check reads; otherwise it answers 400 and the students
\* are unchanged. A request that passed adds exactly one student, with
\* password "Student@123" and no active session, so a Register of the same
\* roll number that reads afterwards is rejected as a duplicate.
C14_RegisterAcceptsExactlyFreshValidRolls ==
    [][/\ \A p \in Procs, roll \in RegisterRolls :
            student_register_find(p, roll)
            => IF /\ Len(roll) = 10
                  /\ \A i \in 1..Len(roll) : roll[i] \in Letters \cup Digits
                  /\ ~\E s \in DOMAIN students : students[s].roll_number = roll
               THEN /\ pc'[p] = "register_insert"
                    /\ local'[p] = roll
                    /\ students' = students
               ELSE /\ resp'.op = "student_register"
                    /\ resp'.status = 400
                    /\ students' = students
                    /\ pc' = pc
       /\ \A p \in Procs :
            student_register_insert(p)
            => /\ resp'.op = "student_register"
               /\ resp'.status = 200
               /\ Cardinality(DOMAIN students' \ DOMAIN students) = 1
               /\ \A s \in DOMAIN students : students'[s] = students[s]
               /\ \A s \in DOMAIN students' \ DOMAIN students :
                     /\ students'[s].roll_number = local[p]
                     /\ students'[s].password = "Student@123"
                     /\ students'[s].active_session_id = NoSession
               /\ \E s \in DOMAIN students' : students'[s].roll_number = local[p]]_vars

\* C14 witness: a Register of a valid roll number has just been rejected with
\* 400 because a registered student holds that roll number.
C14_Witness ==
    /\ resp.op = "student_register"
    /\ resp.status = 400
    /\ resp.roll_number \in ValidRolls
    /\ \E s \in DOMAIN students :
          /\ students[s].roll_number = resp.roll_number
          /\ students[s].password = "Student@123"

\* C15 as stated: in every reachable state no two students share a
\* roll_number, Register requests interleaving between their duplicate check
\* and their insert included.
C15_RollNumbersUnique ==
    \A s, t \in DOMAIN students :
        s # t => students[s].roll_number # students[t].roll_number

\* C16: Logout of an existing student answers 200 and clears
\* active_session_id, so that validating the token held before fails; a Login
\* with valid credentials that reads next goes on to create a session (no
\* device confirmation) and returns a token never issued before; Logout of an
\* unknown student id answers 404 and changes no student.
C16_LogoutClearsSession ==
    [][/\ \A sid \in 1..MaxStudents :
            student_logout(sid)
            => IF sid \in DOMAIN students
               THEN /\ resp'.status = 200
                    /\ students'[sid].active_session_id = NoSession
                    /\ students[sid].active_session_id # NoSession
                         => ValidateResult(students', students[sid].active_session_id) = 0
               ELSE /\ resp'.status = 404
                    /\ students' = students
       /\ \A p \in Procs, roll \in ValidRolls :
            ( /\ resp.op = "student_logout"
              /\ resp.status = 200
              /\ FindByRoll(students, roll) = resp.student_id
              /\ student_login_find(p, roll, DefaultPassword) )
            => /\ pc'[p] = "login_update"
               /\ local'[p] = resp.student_id
       /\ \A p \in Procs :
            student_login_update(p)
            => /\ resp'.status = 200
               /\ resp'.success
               /\ ~resp'.requires_device_confirmation
               /\ resp'.session_id # NoSession
               /\ resp'.session_id \notin {r.token : r \in issued}
               /\ ValidateResult(students', resp'.session_id) = local[p]]_vars

\* C16 witness: a student who had been issued a token has just been logged
\* out, and a Login for that student has passed its active-session check.
C16_Witness ==
    /\ resp.op = "student_logout"
    /\ resp.status = 200
    /\ \E r \in issued : r.student_id = resp.student_id
    /\ students[resp.student_id].active_session_id = NoSession
    /\ \E p \in Procs : pc[p] = "login_update" /\ local[p] = resp.student_id

\* C17: Login and ConfirmDeviceLogin with an unknown roll number or a wrong
\* password answer 401, and ConfirmDeviceLogin with valid credentials and
\* confirm_continue = false answers a cancellation; in all three cases no
\* student record changes and no update is started.
C17_FailedLoginChangesNothing ==
    [][\A roll \in ValidRolls, pw \in Passwords :
        LET sid == FindByRoll(students, roll)
            valid == sid # 0 /\ students[sid].password = pw
        IN  /\ ~valid
               => \A p \in Procs :
                     /\ student_login_find(p, roll, pw)
                        => /\ resp'.op = "student_login"
                           /\ resp'.status = 401
                           /\ students' = students
                           /\ pc' = pc
                     /\ \A c \in BOOLEAN :
                           confirm_device_login_find(p, roll, pw, c)
                           => /\ resp'.op = "confirm_device_login"
                              /\ resp'.status = 401
                              /\ students' = students
                              /\ pc' = pc
            /\ valid
               => \A p \in Procs :
                     confirm_device_login_find(p, roll, pw, FALSE)
                     => /\ resp'.op = "confirm_device_login"
                        /\ resp'.status = 200
                        /\ resp'.cancelled
                        /\ ~resp'.success
                        /\ students' = students
                        /\ pc' = pc]_vars

\* C17 witness: a ConfirmDeviceLogin has just been cancelled for a student
\* who keeps the active session held before.
C17_Witness ==
    /\ resp.op = "confirm_device_login"
    /\ resp.status = 200
    /\ resp.cancelled
    /\ students[resp.student_id].active_session_id # NoSession
    /\ students[resp.student_id].last_login_time # NoTime

-----------------------------------------------------------------------------
(* Claims: the section organizer's contract *)

\* C11: an Organize that directly follows a successful Organize of the same
\* exam with the same sections leaves the exam's sections, its
\* questions_per_student and the section_id of every question of the exam as
\* the first call left them, and returns the same questions_assigned.
C11_OrganizeIdempotent ==
    [][\A e \in ExamIds, secs \in OrganizeSectionLists :
        ( /\ resp.op = "organize_sections"
          /\ resp.status = 200
          /\ resp.exam_id = e
          /\ resp.sections = secs
          /\ organize_sections(e, secs) )
        => /\ resp'.status = 200
           /\ resp'.questions_assigned = resp.questions_assigned
           /\ exams'[e].sections = exams[e].sections
           /\ exams'[e].questions_per_student = exams[e].questions_per_student
           /\ DOMAIN questions' = DOMAIN questions
           /\ \A q \in DOMAIN questions :
                 questions[q].exam_id = e
                 => questions'[q].section_id = questions[q].section_id]_vars

\* C11 witness: the stored state is what Organize makes of the sections it
\* was last given, for two sections that assign questions and leave one
\* question of the exam in the second.
C11_Witness ==
    /\ resp.op = "organize_sections"
    /\ resp.status = 200
    /\ Len(resp.sections) = 2
    /\ resp.questions_assigned > 1
    /\ exams[resp.exam_id].sections = resp.sections
    /\ \E q \in DOMAIN questions :
          questions[q].exam_id = resp.exam_id /\ questions[q].section_id = 1
    /\ \E q \in DOMAIN questions :
          questions[q].exam_id = resp.exam_id /\ questions[q].section_id = 0

\* C12 as stated: the questions_assigned a successful Organize returns, and
\* the questions_per_student it stores, equal the number of questions of the
\* exam that carry a section_id once the call has completed.
C12_AssignedCountsStampedQuestions ==
    (resp.op = "organize_sections" /\ resp.status = 200)
    => LET stamped == {q \in DOMAIN questions :
                          /\ questions[q].exam_id = resp.exam_id
                          /\ questions[q].section_id # NoSection}
       IN  /\ resp.questions_assigned = Cardinality(stamped)
           /\ exams[resp.exam_id].questions_per_student = Cardinality(stamped)

\* C13 as stated: Organize with an exam id that does not exist answers 404
\* and changes no exam and no question.
C13_OrganizeUnknownExamNotFound ==
    [][\A e \in ExamIds, secs \in OrganizeSectionLists :
        (e \notin DOMAIN exams /\ organize_sections(e, secs))
        => /\ resp'.op = "organize_sections"
           /\ resp'.status = 404
           /\ exams' = exams
           /\ questions' = questions]_vars

-----------------------------------------------------------------------------
(* Claims: the attempt life cycle *)

\* C18: an attempt that is completed stays completed in every later state in
\* which it exists, whatever StartExam, SaveAnswer, MarkForReview,
\* ReportSuspiciousActivity, Submit or Organize does next.
C18_CompletedStaysCompleted ==
    [][\A a \in DOMAIN attempts :
        (attempts[a].completed /\ a \in DOMAIN attempts')
        => attempts'[a].completed]_vars

\* C18 witness: a SaveAnswer has just written to a completed attempt that
\* also holds a review mark and a suspicious-activity report.
C18_Witness ==
    /\ resp.op = "save_answer"
    /\ resp.attempt_id \in DOMAIN attempts
    /\ attempts[resp.attempt_id].completed
    /\ attempts[resp.attempt_id].answers # <<>>
    /\ attempts[resp.attempt_id].marked_for_review # <<>>
    /\ attempts[resp.attempt_id].suspicious_activity_count > 0

-----------------------------------------------------------------------------
(* Claims: exam deletion *)

\* C19: a Delete of an existing exam answers 200 and leaves no exam, no
\* question and no attempt with that exam id, while every other exam, the
\* questions and attempts of other exams and all students stay as they were;
\* a Delete of an unknown exam id answers 404 and removes nothing.
C19_DeleteRemovesExamQuestionsAttempts ==
    [][\A e \in DeleteExamIds :
        delete_exam_config(e)
        => IF e \in DOMAIN exams
           THEN /\ resp'.status = 200
                /\ e \notin DOMAIN exams'
                /\ ~\E q \in DOMAIN questions' : questions'[q].exam_id = e
                /\ ~\E a \in DOMAIN attempts' : attempts'[a].exam_id = e
                /\ \A x \in DOMAIN exams \ {e} :
                      x \in DOMAIN exams' /\ exams'[x] = exams[x]
                /\ \A q \in DOMAIN questions :
                      questions[q].exam_id # e
                      => q \in DOMAIN questions' /\ questions'[q] = questions[q]
                /\ \A a \in DOMAIN attempts :
                      attempts[a].exam_id # e
                      => a \in DOMAIN attempts' /\ attempts'[a] = attempts[a]
                /\ students' = students
           ELSE /\ resp'.status = 404
                /\ <<students, exams, questions, attempts>>'
                     = <<students, exams, questions, attempts>>]_vars

\* C19 witness: a Delete has just removed an exam together with a question
\* and an attempt, while a question of another exam remains.
C19_Witness ==
    /\ resp.op = "delete_exam_config"
    /\ resp.status = 200
    /\ DOMAIN exams # {}
    /\ nextAttempt > Cardinality(DOMAIN attempts)
    /\ nextQuestion > Cardinality(DOMAIN questions)
    /\ \E q \in DOMAIN questions : questions[q].exam_id \in DOMAIN exams

\* C20 as stated: a Delete of an existing exam asks the image host to destroy
\* the image of every question of the exam that carries an image_url,
\* whether the image came from the uploaded document or from a
\* single-question image upload.
C20_DeleteDestroysEveryImage ==
    [][\A e \in DeleteExamIds :
        (e \in DOMAIN exams /\ delete_exam_config(e))
        => \A q \in DOMAIN questions :
              (questions[q].exam_id = e /\ questions[q].image_url # PyNone)
              => q \in resp'.destroyed]_vars

-----------------------------------------------------------------------------
(* Claims: review marks and suspicious-activity reports *)

\* C21: MarkForReview on an existing attempt leaves marked_for_review as it
\* is when mark is set and the question is already in the list, or mark is not
\* set and the question is not in it; with mark set on an unmarked question
\* the list gains that id, once, and nothing else; with mark not set on a
\* marked question the list loses that id and nothing else.
C21_MarkForReviewIdempotent ==
    [][\A a \in DOMAIN attempts, q \in ReviewQuestionIds, mark \in BOOLEAN :
        mark_for_review(a, q, mark)
        => LET old == attempts[a].marked_for_review
               new == attempts'[a].marked_for_review
           IN  /\ (mark <=> q \in Range(old)) => new = old
               /\ (mark /\ q \notin Range(old))
                  => /\ Range(new) = Range(old) \cup {q}
                     /\ Len(new) = Len(old) + 1
               /\ (~mark /\ q \in Range(old))
                  => /\ Range(new) = Range(old) \ {q}
                     /\ Len(new) = Len(old) - 1]_vars

\* C21 witness: a MarkForReview with mark not set has just answered for a
\* question that is not in the list, while the other question is still marked.
C21_Witness ==
    /\ resp.op = "mark_for_review"
    /\ resp.status = 200
    /\ ~resp.mark
    /\ resp.question_id \notin Range(attempts[resp.attempt_id].marked_for_review)
    /\ attempts[resp.attempt_id].marked_for_review # <<>>

\* C22 as stated: MarkForReview and ReportSuspiciousActivity called with an
\* attempt id that does not exist both answer with success and change no
\* stored record.
C22_UnknownAttemptSucceeds ==
    [][\A a \in ReviewAttemptIds \ DOMAIN attempts :
        (\/ report_suspicious_activity(a)
         \/ \E q \in ReviewQuestionIds, mark \in BOOLEAN : mark_for_review(a, q, mark))
        => /\ resp'.status = 200
           /\ <<students, exams, questions, attempts>>'
                = <<students, exams, questions, attempts>>]_vars

\* C29: every completed ReportSuspiciousActivity on an existing attempt adds
\* exactly one to its suspicious_activity_count, no other request changes the
\* count, and a new attempt starts at 0; so after n reports, in any order
\* with SaveAnswer, MarkForReview and Submit, the count is n.
C29_SuspiciousCountIsAtomicIncrement ==
    [][/\ \A a \in DOMAIN attempts :
             /\ a \in DOMAIN attempts'
             /\ attempts'[a].suspicious_activity_count
                  = attempts[a].suspicious_activity_count
                    + (IF report_suspicious_activity(a) THEN 1 ELSE 0)
       /\ \A a \in DOMAIN attempts' \ DOMAIN attempts :
             attempts'[a].suspicious_activity_count = 0]_vars

\* C29 witness: a second report has just been counted on an attempt that was
\* answered and submitted.
C29_Witness ==
    /\ resp.op = "report_suspicious_activity"
    /\ resp.attempt_id \in DOMAIN attempts
    /\ attempts[resp.attempt_id].suspicious_activity_count = 2
    /\ attempts[resp.attempt_id].completed
    /\ attempts[resp.attempt_id].answers # <<>>

-----------------------------------------------------------------------------
(* Claims: the question parser *)

\* The positions of the option lines of a paragraph.
OptionPositions(para) == {i \in 1..Len(para) : para[i].letter \in OptionLetters}

\* C23 as stated: an UploadQuestions whose document parses to zero questions
\* is answered with 400, stores no question and leaves the exams as they are.
C23_EmptyUploadRejected400 ==
    [][(resp'.op = "upload_questions" /\ OptionPositions(resp'.doc[1]) = {})
       => /\ resp'.status = 400
          /\ questions' = questions
          /\ exams' = exams]_vars

\* C24 as stated: the correct_answer of a parsed question is the letter of
\* the first option line whose value holds '*', absent when none holds one,
\* and no stored option value holds an asterisk.
C24_FirstStarredOptionIsCorrect ==
    (resp.op = "upload_questions" /\ resp.status = 200)
    => LET para == resp.doc[1]
           starred == {i \in OptionPositions(para) : para[i].star}
           q == questions[nextQuestion]
       IN  /\ q.correct_answer =
                 IF starred = {} THEN PyNone ELSE para[Min(starred)].letter
           /\ \A i \in 1..Len(q.options) : ~q.options[i].star

\* C25 as stated: a stored question whose correct_answer is present has
\* exactly one option with that letter.
C25_CorrectAnswerNamesOneOption ==
    \A q \in DOMAIN questions :
        questions[q].correct_answer # PyNone
        => Cardinality({i \in 1..Len(questions[q].options) :
                          questions[q].options[i].letter
                            = questions[q].correct_answer}) = 1

\* C26: for an uploaded paragraph, no line after its first option line is in
\* the question text or the code snippet; a line before it that is no option
\* line is in the code snippet if it or an earlier line holds a code
\* indicator and in the question text otherwise, once and in order; and a
\* paragraph without option lines stores no question.
C26_LineClassifierOneDirectional ==
    resp.op = "upload_questions"
    => LET para == resp.doc[1]
       IN  IF OptionPositions(para) = {}
           THEN resp.status # 200 /\ DOMAIN questions = {}
           ELSE LET first == Min(OptionPositions(para))
                    q == questions[nextQuestion]
                    InCode(i) == \E j \in 1..i : para[j] = CodeLine
                    Ascending(seq) ==
                        \A i, j \in 1..Len(seq) : i < j => seq[i] < seq[j]
                IN  /\ resp.status = 200
                    /\ Range(q.question_text) = {i \in 1..(first - 1) : ~InCode(i)}
                    /\ Range(q.code_snippet) = {i \in 1..(first - 1) : InCode(i)}
                    /\ Ascending(q.question_text)
                    /\ Ascending(q.code_snippet)

\* C26 witness: a stored question with a text line, a code line and options,
\* parsed from a paragraph that has one more line after the options.
C26_Witness ==
    /\ resp.op = "upload_questions"
    /\ resp.status = 200
    /\ questions[nextQuestion].question_text # <<>>
    /\ questions[nextQuestion].code_snippet # <<>>
    /\ resp.doc[1][Len(resp.doc[1])].letter \notin OptionLetters

\* C27: an UploadQuestions that answers 200 for an existing exam, with a
\* document of n >= 1 paragraphs that have an option line, stores exactly n
\* new questions, each with that exam id and no section_id, keeps every
\* stored question, sets the exam's questions_uploaded and sets its
\* questions_count and questions_per_student to n, and leaves the exam's
\* sections, the other exams and all attempts as they were.
C27_UploadPersistsExactlyParsed ==
    [][(resp'.op = "upload_questions" /\ resp'.status = 200
        /\ resp'.exam_id \in DOMAIN exams)
       => LET e == resp'.exam_id
              doc == resp'.doc
              n == Cardinality({i \in 1..Len(doc) : OptionPositions(doc[i]) # {}})
              new == DOMAIN questions' \ DOMAIN questions
          IN  /\ n >= 1
              /\ Cardinality(new) = n
              /\ \A q \in new :
                    /\ questions'[q].exam_id = e
                    /\ questions'[q].section_id = NoSection
              /\ \A q \in DOMAIN questions :
                    q \in DOMAIN questions' /\ questions'[q] = questions[q]
              /\ exams'[e].questions_uploaded
              /\ exams'[e].questions_count = n
              /\ exams'[e].questions_per_student = n
              /\ exams'[e].sections = exams[e].sections
              /\ \A x \in DOMAIN exams \ {e} : exams'[x] = exams[x]
              /\ DOMAIN exams' = DOMAIN exams
              /\ attempts' = attempts]_vars

\* C27 witness: a second upload has just answered for an exam that has a
\* section list and an attempt; the counts are those of this upload alone.
C27_Witness ==
    /\ resp.op = "upload_questions"
    /\ resp.status = 200
    /\ resp.exam_id \in DOMAIN exams
    /\ exams[resp.exam_id].sections # <<>>
    /\ DOMAIN attempts # {}
    /\ Cardinality(DOMAIN questions) = 4
    /\ exams[resp.exam_id].questions_count = 2

-----------------------------------------------------------------------------
(* Claims: saved answers and the exam page *)

\* C28: a SaveAnswer answers with success; on an existing attempt, completed
\* or not and whether or not the question is one of its question_ids, it sets
\* the answer of that question and leaves every other answer,
\* marked_for_review, completed, score, question_ids and
\* suspicious_activity_count of the attempt, and every other attempt, as they
\* were; on an unknown attempt id it leaves the attempts as they were.
C28_SaveAnswerWritesOneEntry ==
    [][\A a \in ReviewAttemptIds, in \in AnswerInputs :
        save_answer(a, in[1], in[2])
        => /\ resp'.status = 200
           /\ IF a \in DOMAIN attempts
              THEN /\ DOMAIN attempts' = DOMAIN attempts
                   /\ DOMAIN attempts'[a].answers
                        = DOMAIN attempts[a].answers \cup {in[1]}
                   /\ attempts'[a].answers[in[1]] = in[2]
                   /\ \A q \in DOMAIN attempts[a].answers \ {in[1]} :
                         attempts'[a].answers[q] = attempts[a].answers[q]
                   /\ [attempts'[a] EXCEPT !.answers = <<>>]
                        = [attempts[a] EXCEPT !.answers = <<>>]
                   /\ \A x \in DOMAIN attempts \ {a} : attempts'[x] = attempts[x]
              ELSE attempts' = attempts]_vars

\* C28 witness: a SaveAnswer has just replaced the answer to question 1 on a
\* completed attempt that also holds an answer to a question outside its
\* question_ids, a review mark and a suspicious-activity report.
C28_Witness ==
    /\ resp.op = "save_answer"
    /\ resp.attempt_id \in DOMAIN attempts
    /\ attempts[resp.attempt_id].completed
    /\ attempts[resp.attempt_id].score = 1
    /\ DOMAIN attempts[resp.attempt_id].answers = {1, 2}
    /\ attempts[resp.attempt_id].answers[1] = "B"
    /\ 2 \notin attempts[resp.attempt_id].question_ids
    /\ attempts[resp.attempt_id].marked_for_review = <<2, 1>>
    /\ attempts[resp.attempt_id].suspicious_activity_count = 1

\* C30 as stated: a GetExamData that answers 200 returns the questions of the
\* attempt's question_ids that exist when there is at least one, and every
\* question of the exam only when there is none.
C30_ExamDataIsRecordedSelection ==
    (resp.op = "get_exam_data" /\ resp.status = 200)
    => LET selection == attempts[resp.attempt_id].question_ids \cap DOMAIN questions
       IN  resp.questions =
               IF selection # {} THEN selection
               ELSE {q \in DOMAIN questions : questions[q].exam_id = resp.exam_id}

-----------------------------------------------------------------------------
(* Claims: the read-only requests *)

\* C31 as stated: ExamResults, GetSections, GetStatus and GetExamData for an
\* exam id that does not exist, and AvailableExams for a student id that does
\* not exist, are answered with 404.
C31_UnknownIdsAnswer404 ==
    (\/ /\ resp.op \in {"get_exam_results", "get_sections", "get_exam_status",
                        "get_exam_data"}
        /\ resp.exam_id \notin DOMAIN exams
     \/ /\ resp.op = "get_available_exams"
        /\ resp.student_id \notin DOMAIN students)
    => resp.status = 404

\* C32: AvailableExams for an existing student answers 200 with exactly the
\* exams whose branch, year and semester all equal the student's, each with
\* is_completed true iff a completed attempt of that student for that exam
\* exists, and changes no stored record.
C32_AvailableExamsMatchProfile ==
    [][\A s \in DOMAIN students :
        get_available_exams(s)
        => /\ resp'.status = 200
           /\ {x.id : x \in resp'.exams}
                = {e \in DOMAIN exams :
                      <<exams[e].branch, exams[e].year, exams[e].semester>>
                        = <<students[s].branch, students[s].year,
                            students[s].semester>>}
           /\ \A x \in resp'.exams :
                 x.is_completed
                   <=> \E a \in DOMAIN attempts :
                          /\ attempts[a].student_id = s
                          /\ attempts[a].exam_id = x.id
                          /\ attempts[a].completed
           /\ \A x, y \in resp'.exams : x.id = y.id => x = y
           /\ <<students, exams, questions, attempts>>'
                = <<students, exams, questions, attempts>>]_vars

\* C32 witness: AvailableExams has just listed one completed exam for a
\* student while an exam of another year exists and is left out.
C32_Witness ==
    /\ resp.op = "get_available_exams"
    /\ resp.status = 200
    /\ Cardinality(DOMAIN exams) = 2
    /\ Cardinality(resp.exams) = 1
    /\ \A x \in resp.exams : x.is_completed

\* C33: AllResults, ExamResults (for an existing exam) and StudentResults
\* answer 200, and a row of theirs for an exam without sectioned questions
\* has score 0, total 0 and a percentage of exactly 0.
C33_PercentageZeroWithoutSectioned ==
    resp.op \in {"get_results", "get_exam_results", "get_student_results"}
    => \/ resp.op = "get_exam_results" /\ resp.exam_id \notin DOMAIN exams
       \/ /\ resp.status = 200
          /\ \A row \in resp.rows :
                SectionedQuestions(questions, attempts[row.attempt_id].exam_id) = {}
                => row.score = 0 /\ row.total = 0 /\ row.percentage = 0

\* C33 witness: a result query has just reported a completed attempt of an
\* exam that has questions, none of them in a section.
C33_Witness ==
    /\ resp.op \in {"get_results", "get_exam_results", "get_student_results"}
    /\ resp.status = 200
    /\ DOMAIN questions # {}
    /\ \E row \in resp.rows : row.total = 0

(* Claims: requests that interleave, and what outlives them *)

\* The index of the section of the stored list that lists the question,
\* NoSection if none does.
StoredSectionOf(sections, q) ==
    IF \E i \in 1..Len(sections) : q \in Range(sections[i].question_ids)
    THEN (CHOOSE i \in 1..Len(sections) : q \in Range(sections[i].question_ids)) - 1
    ELSE NoSection

\* C34: once every organize_sections on an exam has completed, the
\* section_id of each of the exam's questions is the index of the section
\* of the exam's stored sections that lists it, absent if none lists it.
C34_StampsMatchStoredSections ==
    (/\ resp.op = "organize_sections"
     /\ resp.status = 200
     /\ \A p \in Procs : pc[p] = "idle")
    => \A q \in DOMAIN questions :
          questions[q].exam_id = resp.exam_id /\ resp.exam_id \in DOMAIN exams
          => questions[q].section_id
                 = StoredSectionOf(exams[resp.exam_id].sections, q)

\* C35: no student ever has two completed attempts of one exam.
C35_OneCompletedAttemptPerPair ==
    \A a, b \in DOMAIN attempts :
        (/\ attempts[a].completed
         /\ attempts[b].completed
         /\ attempts[a].student_id = attempts[b].student_id
         /\ attempts[a].exam_id = attempts[b].exam_id)
        => a = b

\* C36: the score submit_exam computes, and the score each result query
\* reports, is the score of the questions the attempt holds an answer for:
\* a question without a stored answer adds nothing, whatever its
\* correct_answer.
C36_UnansweredNeverScores ==
    /\ (resp.op = "submit_exam" /\ resp.status = 200)
       => LET att == attempts[resp.attempt_id]
          IN  /\ att.score = resp.score
              /\ resp.score = Score(questions, att.answers,
                                    SubmitQuestions(questions, att) \cap DOMAIN att.answers)
    /\ (resp.op \in {"get_results", "get_exam_results", "get_student_results"}
        /\ resp.status = 200)
       => \A row \in resp.rows :
             LET att == attempts[row.attempt_id]
             IN  row.score = Score(questions, att.answers,
                                   SectionedQuestions(questions, att.exam_id)
                                       \cap DOMAIN att.answers)

\* C37: the write back of a mark_for_review request with mark set loses
\* nothing: afterwards the list holds every id it held before the write, and
\* the id of the request.
C37_MarkKeepsConcurrentMarks ==
    [][\A p \in Procs :
          (/\ pc[p] = "mark_update"
           /\ pc'[p] = "idle"
           /\ local[p].mark)
          => LET a == local[p].attempt_id
             IN  Range(attempts[a].marked_for_review) \cup {local[p].question_id}
                     \subseteq Range(attempts'[a].marked_for_review)]_vars

\* C38: an exam that questions were uploaded for has questions_count equal
\* to the number of stored questions with its exam_id, and get_exam_status
\* reports that very number as total_questions.
C38_QuestionsCountIsStoredCount ==
    /\ \A e \in DOMAIN exams :
          exams[e].questions_uploaded
          => exams[e].questions_count
                 = Cardinality({q \in DOMAIN questions : questions[q].exam_id = e})
    /\ (/\ resp.op = "get_exam_status"
        /\ resp.status = 200
        /\ exams[resp.exam_id].questions_uploaded)
       => resp.total_questions = exams[resp.exam_id].questions_count

\* C39: with no answer saved after submit, submit_exam returns the score and
\* total it stores, and get_exam_results and get_student_results report that
\* score and total for every attempt whose exam has exactly the attempt's
\* question_ids sectioned.
C39_ResultsAgreeWithSubmit ==
    /\ (resp.op = "submit_exam" /\ resp.status = 200)
       => /\ resp.score = attempts[resp.attempt_id].score
          /\ resp.total = attempts[resp.attempt_id].total_questions
    /\ (resp.op \in {"get_exam_results", "get_student_results"} /\ resp.status = 200)
       => \A row \in resp.rows :
             LET att == attempts[row.attempt_id]
             IN  SectionedQuestions(questions, att.exam_id) = att.question_ids
                 => row.score = att.score /\ row.total = att.total_questions

\* C39 witness: a result query reports an attempt with a saved answer and a
\* positive score, whose exam still has the attempt's questions sectioned
\* and another question unsectioned.
C39_Witness ==
    /\ resp.op \in {"get_exam_results", "get_student_results"}
    /\ resp.status = 200
    /\ \E row \in resp.rows :
          LET att == attempts[row.attempt_id]
          IN  /\ SectionedQuestions(questions, att.exam_id) = att.question_ids
              /\ DOMAIN att.answers # {}
              /\ row.score > 0
              /\ row.total < Cardinality({q \in DOMAIN questions :
                                             questions[q].exam_id = att.exam_id})

\* C40: an exam id that was generated and is no longer stored belongs to a
\* deleted exam; no question and no attempt carries such an exam id.
C40_NothingOutlivesDeletedExam ==
    \A e \in (1..nextExam) \ DOMAIN exams :
        /\ \A q \in DOMAIN questions : questions[q].exam_id # e
        /\ \A a \in DOMAIN attempts : attempts[a].exam_id # e

====
